---- MODULE Spec2Model ----
(***************************************************************************)
(* Salarium backend: the statistics routes (app/routes/stats.py), the      *)
(* salary record routes (app/routes/salaries.py) and the date-range parser *)
(* they share.                                                             *)
(*                                                                         *)
(* Strings are sequences of one-character strings, so that strip, split,   *)
(* isdigit and int are computed character by character as Python does.     *)
(* Money is an integer number of cents: every amount of the program is a   *)
(* Decimal with two places (or the float of one, which str() turns back    *)
(* into the same Decimal for amounts of at most 15 digits).                *)
(***************************************************************************)
EXTENDS Integers, Sequences, FiniteSets, TLC

VARIABLES
    range_parts,    \* the pieces the range string was written from
    range_str,      \* the range string handed to _parse_range
    range_ret,      \* what the call returned (Pending before the call)
    records,        \* table SalaryRecord: a set of rows
    custom_values,  \* table CustomSalaryValue: a set of rows
    salary_fields,  \* table SalaryField: id -> row
    next_id,        \* the next SalaryRecord primary key
    templates,      \* table SalaryTemplate: a set of rows
    resp            \* the last request and its response

range_vars == <<range_parts, range_str, range_ret>>
db_vars == <<records, custom_values, salary_fields, next_id, templates>>
vars == <<range_parts, range_str, range_ret, records, custom_values,
          salary_fields, next_id, templates, resp>>

(***************************************************************************)
(* Python string primitives                                                *)
(***************************************************************************)
None == << "<None>" >>
Pending == [exc |-> "pending", val |-> <<0, 0>>]

DecimalDigits == <<"0", "1", "2", "3", "4", "5", "6", "7", "8", "9">>
IsDecimal(c) == \E i \in 1..10 : DecimalDigits[i] = c
DigitValue(c) == (CHOOSE i \in 1..10 : DecimalDigits[i] = c) - 1

\* Characters for which str.isdigit() is true but which int() rejects
\* (superscripts, circled digits: Numeric_Type=Digit, not Decimal).
NonDecimalDigits == {"²"}
Whitespace == {" "}

RECURSIVE lstrip(_)
lstrip(s) ==
    IF s = <<>> THEN s
    ELSE IF Head(s) \in Whitespace THEN lstrip(Tail(s)) ELSE s

RECURSIVE rstrip(_)
rstrip(s) ==
    IF s = <<>> THEN s
    ELSE IF s[Len(s)] \in Whitespace THEN rstrip(SubSeq(s, 1, Len(s) - 1)) ELSE s

strip(s) == rstrip(lstrip(s))

\* index of the first occurrence of sub in s, 0 when there is none
find(s, sub) ==
    LET hits == {i \in 1..(Len(s) - Len(sub) + 1) :
                    SubSeq(s, i, i + Len(sub) - 1) = sub}
    IN  IF hits = {} THEN 0 ELSE CHOOSE i \in hits : \A j \in hits : i <= j

contains(s, sub) == find(s, sub) # 0

\* s.split(sep, 1) for a sep that occurs in s
split1(s, sep) ==
    LET i == find(s, sep)
    IN  <<SubSeq(s, 1, i - 1), SubSeq(s, i + Len(sep), Len(s))>>

isdigit(p) ==
    /\ Len(p) > 0
    /\ \A i \in 1..Len(p) : IsDecimal(p[i]) \/ p[i] \in NonDecimalDigits

RECURSIVE DigitsValue(_, _)
DigitsValue(s, acc) ==
    IF s = <<>> THEN acc
    ELSE IF Head(s) = "_" THEN DigitsValue(Tail(s), acc)
    ELSE DigitsValue(Tail(s), acc * 10 + DigitValue(Head(s)))

\* int(s): surrounding whitespace, one optional sign, decimal digits with
\* single underscores between them. [ok |-> FALSE] stands for ValueError.
int(s) ==
    LET t    == strip(s)
        neg  == t # <<>> /\ Head(t) = "-"
        body == IF t # <<>> /\ Head(t) \in {"-", "+"} THEN Tail(t) ELSE t
        wellformed ==
            /\ Len(body) > 0
            /\ IsDecimal(body[1])
            /\ IsDecimal(body[Len(body)])
            /\ \A i \in 1..Len(body) : IsDecimal(body[i]) \/ body[i] = "_"
            /\ \A i \in 1..(Len(body) - 1) : ~(body[i] = "_" /\ body[i + 1] = "_")
    IN  IF wellformed
        THEN [ok |-> TRUE, n |-> IF neg THEN 0 - DigitsValue(body, 0)
                                        ELSE DigitsValue(body, 0)]
        ELSE [ok |-> FALSE, n |-> 0]

(***************************************************************************)
(* Python numbers: Decimal division and float()                            *)
(*                                                                         *)
(* Amounts are integers. A quotient is a Decimal [neg, coef, frac], the    *)
(* number coef / 10^frac, and a float is [neg, m, k], the number m / 2^k.  *)
(* coef and m are naturals of any size, written as sequences of decimal    *)
(* digits, least significant first, <<>> being 0.                          *)
(***************************************************************************)
\* precision of the default decimal context
DecimalPrec == 28

RECURSIVE BigOf(_)
BigOf(n) == IF n = 0 THEN <<>> ELSE <<n % 10>> \o BigOf(n \div 10)

RECURSIVE BigTrim(_)
BigTrim(a) ==
    IF a # <<>> /\ a[Len(a)] = 0 THEN BigTrim(SubSeq(a, 1, Len(a) - 1)) ELSE a

BigDigit(a, i) == IF i \in DOMAIN a THEN a[i] ELSE 0

RECURSIVE BigCarry(_, _, _, _)
BigCarry(a, b, i, c) ==
    IF i > Len(a) /\ i > Len(b)
    THEN IF c = 0 THEN <<>> ELSE <<c>>
    ELSE <<(BigDigit(a, i) + BigDigit(b, i) + c) % 10>>
         \o BigCarry(a, b, i + 1, (BigDigit(a, i) + BigDigit(b, i) + c) \div 10)

BigAdd(a, b) == BigCarry(a, b, 1, 0)

BigTimes2(a) == BigAdd(a, a)

\* a * c for a small natural c
RECURSIVE BigTimesC(_, _, _, _)
BigTimesC(a, c, i, carry) ==
    IF i > Len(a) THEN BigOf(carry)
    ELSE <<(a[i] * c + carry) % 10>>
         \o BigTimesC(a, c, i + 1, (a[i] * c + carry) \div 10)

BigTimes(a, c) == BigTrim(BigTimesC(a, c, 1, 0))

\* a * 10^n, a div 10^n and a mod 10^n
RECURSIVE Zeros(_)
Zeros(n) == IF n <= 0 THEN <<>> ELSE <<0>> \o Zeros(n - 1)
BigShift(a, n) == IF a = <<>> THEN <<>> ELSE Zeros(n) \o a
BigHigh(a, n) == IF n >= Len(a) THEN <<>> ELSE SubSeq(a, n + 1, Len(a))
BigLow(a, n) == BigTrim(IF n >= Len(a) THEN a ELSE SubSeq(a, 1, n))

\* -1, 0 or 1 as a < b, a = b or a > b
BigCmp(a, b) ==
    IF Len(a) # Len(b) THEN (IF Len(a) < Len(b) THEN -1 ELSE 1)
    ELSE IF a = b THEN 0
    ELSE LET i == CHOOSE j \in DOMAIN a :
                    a[j] # b[j] /\ \A h \in (j + 1)..Len(a) : a[h] = b[h]
         IN  IF a[i] < b[i] THEN -1 ELSE 1

\* 2^53
TwoPow53 == <<2, 9, 9, 0, 4, 7, 4, 5, 2, 9, 9, 1, 7, 0, 0, 9>>

BigIsOdd(a) == a # <<>> /\ a[1] % 2 = 1

\* the digits of r / b after the digits coef, frac of them being behind the
\* point, until the remainder is 0 or DecimalPrec significant digits are
\* written; then ROUND_HALF_EVEN on the remainder
RECURSIVE DecimalDigitsOf(_, _, _, _)
DecimalDigitsOf(coef, frac, r, b) ==
    IF r = 0 THEN [coef |-> coef, frac |-> frac]
    ELSE IF Len(coef) >= DecimalPrec
    THEN [coef |-> IF 2 * r > b \/ (2 * r = b /\ BigIsOdd(coef))
                   THEN BigAdd(coef, <<1>>) ELSE coef,
          frac |-> frac]
    ELSE DecimalDigitsOf(
            IF coef = <<>> /\ (r * 10) \div b = 0 THEN <<>>
            ELSE <<(r * 10) \div b>> \o coef,
            frac + 1, (r * 10) % b, b)

Abs(n) == IF n < 0 THEN -n ELSE n

DecimalSigned(neg, d) == [neg |-> neg, coef |-> d.coef, frac |-> d.frac]

\* Decimal(a) / Decimal(b) for integers a and b, b # 0
DecimalDiv(a, b) ==
    DecimalSigned((a < 0) # (b < 0) /\ a # 0,
                  DecimalDigitsOf(BigOf(Abs(a) \div Abs(b)), 0,
                                  Abs(a) % Abs(b), Abs(b)))

\* d * 100: the point moves, no digit is lost
DecimalTimes100(d) ==
    IF d.frac >= 2 THEN [d EXCEPT !.frac = @ - 2]
    ELSE [d EXCEPT !.coef = BigShift(@, 2 - d.frac), !.frac = 0]

DecimalOf(n) == [neg |-> n < 0, coef |-> BigOf(Abs(n)), frac |-> 0]

\* g.n is coef * 2^g.k: multiply by 2^s as long as the integer part of
\* g.n / 10^frac stays below 2^53
RECURSIVE FloatGrow(_, _, _)
RECURSIVE FloatGrowTo(_, _, _, _)
FloatGrow(g, frac, s) == FloatGrowTo(g, BigTimes(g.n, 2 ^ s), frac, s)
FloatGrowTo(g, bigger, frac, s) ==
    IF BigCmp(BigHigh(bigger, frac), TwoPow53) < 0
    THEN FloatGrow([n |-> bigger, k |-> g.k + s], frac, s)
    ELSE g

\* round half to even on the digits behind the point
FloatRounded(neg, high, low, half, k) ==
    [neg |-> neg,
     m |-> IF low # <<>>
              /\ (BigCmp(low, half) > 0
                    \/ (BigCmp(low, half) = 0 /\ BigIsOdd(high)))
           THEN BigAdd(high, <<1>>) ELSE high,
     k |-> k]

FloatRound(neg, g, frac) ==
    FloatRounded(neg, BigHigh(g.n, frac), BigLow(g.n, frac),
                 BigShift(<<5>>, frac - 1), g.k)

\* float(d) for a Decimal below 2^53 in size: the nearest double, ties to
\* even. The significand is the integer part of coef * 2^k / 10^frac for the
\* k that puts it in [2^52, 2^53), rounded on the digits behind the point.
float(d) ==
    IF d.coef = <<>> THEN [neg |-> FALSE, m |-> <<>>, k |-> 0]
    ELSE FloatRound(d.neg,
            FloatGrow(FloatGrow(FloatGrow([n |-> d.coef, k |-> 0],
                                          d.frac, 16),
                                d.frac, 4),
                      d.frac, 1),
            d.frac)

(***************************************************************************)
(* Date-range parsing                                                      *)
(***************************************************************************)
\* mutant of _ym_num: the month is dropped from the bound
YmNumNoMonth(y, m) == y * 100

_ym_num(y, m) == y * 100 + m

Returned(v) == [exc |-> "none", val |-> v]
Raised(e) == [exc |-> e, val |-> <<0, 0>>]

ParseOneFallback(is_start) == IF is_start THEN <<0, 1>> ELSE <<9999, 12>>

\* mutant of parse_one: a YYYY-MM token keeps its year only, the month is the
\* side's default
ParseOneIgnoresMonth(part, is_start) ==
    LET p == strip(part)
    IN  IF p = <<>> THEN Returned(ParseOneFallback(is_start))
        ELSE IF Len(p) = 4 /\ isdigit(p)
        THEN IF int(p).ok
             THEN Returned(<<int(p).n, IF is_start THEN 1 ELSE 12>>)
             ELSE Raised("ValueError")
        ELSE IF contains(p, <<"-">>)
                /\ int(split1(p, <<"-">>)[1]).ok
                /\ int(split1(p, <<"-">>)[2]).ok
        THEN Returned(<<int(split1(p, <<"-">>)[1]).n, IF is_start THEN 1 ELSE 12>>)
        ELSE Returned(ParseOneFallback(is_start))

parse_one(part, is_start) ==
    LET p == strip(part)
    IN  IF p = <<>> THEN Returned(ParseOneFallback(is_start))
        ELSE IF Len(p) = 4 /\ isdigit(p)
        THEN \* int(p) is outside any try block
             IF int(p).ok
             THEN Returned(<<int(p).n, IF is_start THEN 1 ELSE 12>>)
             ELSE Raised("ValueError")
        ELSE IF contains(p, <<"-">>)
                /\ int(split1(p, <<"-">>)[1]).ok
                /\ int(split1(p, <<"-">>)[2]).ok
        THEN Returned(<<int(split1(p, <<"-">>)[1]).n, int(split1(p, <<"-">>)[2]).n>>)
        ELSE Returned(ParseOneFallback(is_start))

Separators == << <<".", ".">>, <<":">>, <<",">>, <<"_">> >>

\* mutant of FirstSeparator: only '..' and ':' are looked for
FirstSeparatorTwoOnly(s) ==
    LET found == {i \in 1..2 : contains(s, Separators[i])}
    IN  IF found = {} THEN 0 ELSE CHOOSE i \in found : \A j \in found : i <= j

\* the first candidate, in the order of the tuple, that occurs in s; 0 if none
FirstSeparator(s) ==
    LET found == {i \in 1..Len(Separators) : contains(s, Separators[i])}
    IN  IF found = {} THEN 0 ELSE CHOOSE i \in found : \A j \in found : i <= j

_parse_range(range_str_) ==
    LET s == strip(IF range_str_ = None THEN <<>> ELSE range_str_)
        sep == FirstSeparator(s)
    IN  IF s = <<>> THEN Returned(<<0, 999999>>)
        ELSE IF sep = 0
        THEN LET one == parse_one(s, TRUE)
             IN  IF one.exc # "none" THEN one
                 ELSE Returned(<<_ym_num(one.val[1], one.val[2]),
                                 _ym_num(one.val[1], one.val[2])>>)
        ELSE LET lr == split1(s, Separators[sep])
                 a  == parse_one(lr[1], TRUE)
                 b  == parse_one(lr[2], FALSE)
             IN  IF a.exc # "none" THEN a
                 ELSE IF b.exc # "none" THEN b
                 ELSE Returned(<<_ym_num(a.val[1], a.val[2]),
                                 _ym_num(b.val[1], b.val[2])>>)

(***************************************************************************)
(* Range strings: written from tokens, separators and junk                 *)
(***************************************************************************)
MaxPieces == 3
MaxDigitRun == 6

RangeYears == {2023, 2024}
RangeMonths == {1, 3, 6}

RECURSIVE ZeroPad(_, _)
ZeroPad(n, width) ==
    IF width = 0 THEN <<>>
    ELSE Append(ZeroPad(n \div 10, width - 1), DecimalDigits[(n % 10) + 1])

YearToken(y) == [kind |-> "year", y |-> y, m |-> 0, text |-> ZeroPad(y, 4)]
MonthToken(y, m) ==
    [kind |-> "month", y |-> y, m |-> m,
     text |-> ZeroPad(y, 4) \o <<"-">> \o ZeroPad(m, 2)]
SepPiece(i) == [kind |-> "sep", y |-> 0, m |-> 0, text |-> Separators[i]]
JunkPiece(t) == [kind |-> "junk", y |-> 0, m |-> 0, text |-> t]

Bogus == <<"b", "o", "g", "u", "s">>

Pieces ==
    {YearToken(y) : y \in RangeYears}
    \cup {MonthToken(y, m) : y \in RangeYears, m \in RangeMonths}
    \cup {SepPiece(i) : i \in 1..Len(Separators)}
    \cup {JunkPiece(t) : t \in {Bogus, <<" ">>, <<"²", "²", "²", "²">>,
                                <<"2", "0">>, <<"-">>}}

RECURSIVE Render(_)
Render(parts) ==
    IF parts = <<>> THEN <<>> ELSE Head(parts).text \o Render(Tail(parts))

\* Python's int is unbounded; the strings drawn keep every run of digits short
\* enough for year * 100 + month to stay inside TLC's 32-bit integers.
DigitRunOk(s) ==
    \A i \in 1..(Len(s) - MaxDigitRun) :
        \E j \in i..(i + MaxDigitRun) : ~IsDecimal(s[j])

PieceSeqs ==
    {ps \in UNION {[1..n -> Pieces] : n \in 0..MaxPieces} : DigitRunOk(Render(ps))}

(***************************************************************************)
(* Data model                                                              *)
(***************************************************************************)
CoreFields ==
    <<"base_salary", "performance_salary", "pension_insurance",
      "medical_insurance", "unemployment_insurance",
      "critical_illness_insurance", "enterprise_annuity", "housing_fund",
      "tax">>

OptionalFields ==
    <<"high_temp_allowance", "low_temp_allowance", "meal_allowance",
      "computer_allowance", "communication_allowance",
      "comprehensive_allowance", "mid_autumn_benefit", "dragon_boat_benefit",
      "spring_festival_benefit", "other_income", "other_deductions",
      "labor_union_fee", "performance_deduction">>

AmountFields == CoreFields \o OptionalFields
Range(f) == {f[i] : i \in DOMAIN f}

\* the core columns of a row, those not named being 0
CoreAmounts(base, pension, medical, housing, tax) ==
    [f \in Range(CoreFields) |->
        CASE f = "base_salary" -> base
          [] f = "pension_insurance" -> pension
          [] f = "medical_insurance" -> medical
          [] f = "housing_fund" -> housing
          [] f = "tax" -> tax
          [] OTHER -> 0]

\* Person rows: the owner and the three history balances
persons ==
    (1 :> [user_id |-> 1, pension_history |-> 100, medical_history |-> 200,
           housing_fund_history |-> 300])
    @@ (2 :> [user_id |-> 1, pension_history |-> 0, medical_history |-> 0,
              housing_fund_history |-> 0])
    @@ (3 :> [user_id |-> 2, pension_history |-> 50, medical_history |-> 60,
              housing_fund_history |-> 70])

Users == {1, 2}

\* SalaryField rows: three definitions of user 1, one of user 2
SalaryFieldRows ==
    (1 :> [user_id |-> 1, field_key |-> "bonus", name |-> "Bonus",
           field_type |-> "income", is_non_cash |-> FALSE, is_active |-> TRUE])
    @@ (2 :> [user_id |-> 1, field_key |-> "gift", name |-> "Gift",
              field_type |-> "income", is_non_cash |-> TRUE, is_active |-> TRUE])
    @@ (3 :> [user_id |-> 1, field_key |-> "fine", name |-> "Fine",
              field_type |-> "deduction", is_non_cash |-> FALSE,
              is_active |-> TRUE])
    @@ (4 :> [user_id |-> 2, field_key |-> "perk", name |-> "Perk",
              field_type |-> "income", is_non_cash |-> FALSE, is_active |-> TRUE])

NoResponse == [op |-> "none", args |-> <<>>, status |-> 0, body |-> <<>>]
Response(op, args, status, body) ==
    [op |-> op, args |-> args, status |-> status, body |-> body]

\* a SalaryRecord row: the key columns and the amount columns it has
SalaryRecordRow(id, person_id, year, month, amounts) ==
    [id |-> id, person_id |-> person_id, year |-> year, month |-> month]
        @@ amounts

CustomValueRow(record_id, field_id, amount) ==
    [salary_record_id |-> record_id, salary_field_id |-> field_id,
     amount |-> amount]

\* the rows of S in ascending order of Key, which is injective on S
SortedBy(S, Key(_)) ==
    [i \in 1..Cardinality(S) |->
        CHOOSE x \in S : Cardinality({y \in S : Key(y) < Key(x)}) = i - 1]

\* QuerySet.all(): rows in primary-key order
AllRows(S) == SortedBy(S, LAMBDA r : r.id)

RECURSIVE SumSeq(_)
SumSeq(q) == IF q = <<>> THEN 0 ELSE Head(q) + SumSeq(Tail(q))

(***************************************************************************)
(* stats.py: helpers                                                       *)
(***************************************************************************)
\* Decimal(str(v or 0)): exact on two-place amounts
_D(v) == v

_F(record, field_name) ==
    IF field_name \in DOMAIN record THEN record[field_name] ELSE 0

load_custom_fields_for_payroll(record_ids) ==
    LET Entry(v) ==
            [field_type |-> salary_fields[v.salary_field_id].field_type,
             is_non_cash |-> salary_fields[v.salary_field_id].is_non_cash,
             amount |-> v.amount,
             field_key |-> salary_fields[v.salary_field_id].field_key,
             label |-> salary_fields[v.salary_field_id].name]
        Of(rid) == SortedBy({v \in custom_values : v.salary_record_id = rid},
                            LAMBDA v : v.salary_field_id)
        with == {rid \in record_ids :
                    \E v \in custom_values : v.salary_record_id = rid}
    IN  [rid \in with |-> [i \in DOMAIN Of(rid) |-> Entry(Of(rid)[i])]]

\* dict.get(key, [])
MapGet(map, key) == IF key \in DOMAIN map THEN map[key] ELSE <<>>

_allowances_sum_net(r) ==
    _D(_F(r, "high_temp_allowance")) + _D(_F(r, "low_temp_allowance"))
    + _D(_F(r, "computer_allowance")) + _D(_F(r, "communication_allowance"))
    + _D(_F(r, "comprehensive_allowance"))

_allowances_sum_full(r) ==
    _D(_F(r, "high_temp_allowance")) + _D(_F(r, "low_temp_allowance"))
    + _D(_F(r, "meal_allowance")) + _D(_F(r, "computer_allowance"))
    + _D(_F(r, "communication_allowance"))
    + _D(_F(r, "comprehensive_allowance"))

_benefits_sum(r) ==
    _D(_F(r, "mid_autumn_benefit")) + _D(_F(r, "dragon_boat_benefit"))
    + _D(_F(r, "spring_festival_benefit"))

\* mutant of _deductions_sum: the labor union fee is left out
DeductionsSumNoUnionFee(r) ==
    _D(r.pension_insurance) + _D(r.medical_insurance)
    + _D(r.unemployment_insurance) + _D(r.critical_illness_insurance)
    + _D(r.enterprise_annuity) + _D(r.housing_fund)
    + _D(_F(r, "other_deductions")) + _D(_F(r, "performance_deduction"))

_deductions_sum(r) ==
    _D(r.pension_insurance) + _D(r.medical_insurance)
    + _D(r.unemployment_insurance) + _D(r.critical_illness_insurance)
    + _D(r.enterprise_annuity) + _D(r.housing_fund)
    + _D(_F(r, "other_deductions")) + _D(_F(r, "labor_union_fee"))
    + _D(_F(r, "performance_deduction"))

\* (custom_cash, custom_non_cash, custom_deduction)
RECURSIVE _custom_sums(_)
_custom_sums(custom_items) ==
    IF custom_items = <<>> THEN <<0, 0, 0>>
    ELSE LET cf   == Head(custom_items)
             rest == _custom_sums(Tail(custom_items))
             amount == _D(cf.amount)
         IN  IF cf.field_type = "income"
             THEN IF cf.is_non_cash
                  THEN <<rest[1], rest[2] + amount, rest[3]>>
                  ELSE <<rest[1] + amount, rest[2], rest[3]>>
             ELSE IF cf.field_type = "deduction"
             THEN <<rest[1], rest[2], rest[3] + amount>>
             ELSE rest

_salary_query(user_id, person_id, year, month) ==
    {r \in records :
        /\ persons[r.person_id].user_id = user_id
        /\ person_id # 0 => r.person_id = person_id
        /\ year # 0 => r.year = year
        /\ month # 0 => r.month = month}

\* [r for r in recs if start_num <= _ym_num(r.year, r.month) <= end_num]
KeptBetween(recs, start_num, end_num) ==
    SelectSeq(recs, LAMBDA r : /\ start_num <= _ym_num(r.year, r.month)
                               /\ _ym_num(r.year, r.month) <= end_num)

\* recs is a sequence of records; the result is Returned(kept records), or
\* what _parse_range raised
_apply_range(recs, range_str_) ==
    IF range_str_ = None \/ range_str_ = <<>> THEN Returned(recs)
    ELSE LET Kept(parsed) ==
                IF parsed.exc # "none" THEN parsed
                ELSE Returned(KeptBetween(recs, parsed.val[1], parsed.val[2]))
         IN  Kept(_parse_range(range_str_))

(***************************************************************************)
(* stats.py: monthly_stats                                                 *)
(***************************************************************************)
MonthlyRow(r, custom_payroll_map) ==
    LET sums == _custom_sums(MapGet(custom_payroll_map, r.id))
        custom_cash == sums[1]
        custom_non_cash == sums[2]
        custom_deduction == sums[3]
        allowances_total ==
            _F(r, "high_temp_allowance") + _F(r, "low_temp_allowance")
            + _F(r, "computer_allowance") + _F(r, "communication_allowance")
            + _F(r, "comprehensive_allowance")
        insurance_total ==
            r.pension_insurance + r.medical_insurance
            + r.unemployment_insurance + r.critical_illness_insurance
            + r.enterprise_annuity + r.housing_fund
        benefits_total == _benefits_sum(r) + custom_non_cash
        cash_income ==
            _D(r.base_salary) + _D(r.performance_salary)
            + _allowances_sum_full(r) + _D(_F(r, "other_income")) + custom_cash
        deductions_total == _deductions_sum(r) + custom_deduction
        actual_take_home == cash_income - deductions_total - _D(r.tax)
    IN  [person_id |-> r.person_id, year |-> r.year, month |-> r.month,
         base_salary |-> r.base_salary, performance |-> r.performance_salary,
         allowances_total |-> allowances_total, bonuses_total |-> 0,
         insurance_total |-> insurance_total, tax |-> _D(r.tax),
         gross_income |-> cash_income, net_income |-> actual_take_home,
         actual_take_home |-> actual_take_home,
         non_cash_benefits |-> benefits_total]

\* mutant of monthly_stats: the result list outlives the request, and the rows
\* of a repeated request are added to it
MonthlyStatsKeepsResult(user_id, person_id, year, month) ==
    LET recs == AllRows(_salary_query(user_id, person_id, year, month))
        custom_payroll_map ==
            load_custom_fields_for_payroll({recs[i].id : i \in DOMAIN recs})
        result == IF resp.op = "monthly_stats" THEN resp.body ELSE <<>>
    IN  Response("monthly_stats", <<user_id, person_id, year, month>>, 200,
                 result \o [i \in DOMAIN recs |->
                                MonthlyRow(recs[i], custom_payroll_map)])

monthly_stats(user_id, person_id, year, month) ==
    LET recs == AllRows(_salary_query(user_id, person_id, year, month))
        custom_payroll_map ==
            load_custom_fields_for_payroll({recs[i].id : i \in DOMAIN recs})
    IN  Response("monthly_stats", <<user_id, person_id, year, month>>, 200,
                 [i \in DOMAIN recs |-> MonthlyRow(recs[i], custom_payroll_map)])

(***************************************************************************)
(* stats.py: yearly_stats, family_summary, cumulative_insurance            *)
(***************************************************************************)
\* mutant of YearlyTerms: the festival benefits are counted as cash income
YearlyTermsBenefitsAsCash(r, custom_payroll_map) ==
    LET sums == _custom_sums(MapGet(custom_payroll_map, r.id))
        cash_income ==
            _D(r.base_salary) + _D(r.performance_salary)
            + _allowances_sum_full(r) + _D(_F(r, "other_income")) + sums[1]
            + _benefits_sum(r)
        deductions_total == _deductions_sum(r) + sums[3]
    IN  [allowances_total |->
            _F(r, "high_temp_allowance") + _F(r, "low_temp_allowance")
            + _F(r, "computer_allowance") + _F(r, "communication_allowance")
            + _F(r, "comprehensive_allowance"),
         bonuses_total |->
            _F(r, "mid_autumn_benefit") + _F(r, "dragon_boat_benefit")
            + _F(r, "spring_festival_benefit") + _F(r, "other_income"),
         insurance_total |->
            r.pension_insurance + r.medical_insurance
            + r.unemployment_insurance + r.critical_illness_insurance
            + r.enterprise_annuity + r.housing_fund,
         benefits_total |-> _benefits_sum(r) + sums[2],
         cash_income |-> cash_income,
         actual_take_home |-> cash_income - deductions_total - _D(r.tax),
         tax |-> _D(r.tax)]

\* what the loop body of yearly_stats computes of one record
YearlyTerms(r, custom_payroll_map) ==
    LET sums == _custom_sums(MapGet(custom_payroll_map, r.id))
        custom_cash == sums[1]
        custom_non_cash == sums[2]
        custom_deduction == sums[3]
        cash_income ==
            _D(r.base_salary) + _D(r.performance_salary)
            + _allowances_sum_full(r) + _D(_F(r, "other_income")) + custom_cash
        deductions_total == _deductions_sum(r) + custom_deduction
    IN  [allowances_total |->
            _F(r, "high_temp_allowance") + _F(r, "low_temp_allowance")
            + _F(r, "computer_allowance") + _F(r, "communication_allowance")
            + _F(r, "comprehensive_allowance"),
         bonuses_total |->
            _F(r, "mid_autumn_benefit") + _F(r, "dragon_boat_benefit")
            + _F(r, "spring_festival_benefit") + _F(r, "other_income"),
         insurance_total |->
            r.pension_insurance + r.medical_insurance
            + r.unemployment_insurance + r.critical_illness_insurance
            + r.enterprise_annuity + r.housing_fund,
         benefits_total |-> _benefits_sum(r) + custom_non_cash,
         cash_income |-> cash_income,
         actual_take_home |-> cash_income - deductions_total - _D(r.tax),
         tax |-> _D(r.tax)]

\* the keys of stats_map in insertion order: the person ids of recs, each
\* where it first appears
RECURSIVE FirstSeen(_, _)
FirstSeen(recs, seen) ==
    IF recs = <<>> THEN <<>>
    ELSE IF Head(recs).person_id \in seen THEN FirstSeen(Tail(recs), seen)
    ELSE <<Head(recs).person_id>>
         \o FirstSeen(Tail(recs), seen \cup {Head(recs).person_id})

\* mutant of YearlyRow: the average is taken over twelve months
YearlyRowAverageOfTwelve(pid, year, recs, custom_payroll_map) ==
    LET mine == SelectSeq(recs, LAMBDA r : r.person_id = pid)
        Term(i) == YearlyTerms(mine[i], custom_payroll_map)
        Total(f) == SumSeq([i \in DOMAIN mine |-> Term(i)[f]])
    IN  [person_id |-> pid, year |-> year, months |-> Len(mine),
         total_gross |-> Total("cash_income"),
         total_net |-> Total("actual_take_home"),
         avg_net |-> DecimalDiv(Total("actual_take_home"), 12),
         insurance_total |-> Total("insurance_total"),
         tax_total |-> Total("tax"),
         allowances_total |-> Total("allowances_total"),
         bonuses_total |-> Total("bonuses_total"),
         total_actual_take_home |-> Total("actual_take_home"),
         total_non_cash_benefits |-> Total("benefits_total")]

\* mutant of YearlyRow: total_net is fed from the cash income
YearlyRowNetFromGross(pid, year, recs, custom_payroll_map) ==
    LET mine == SelectSeq(recs, LAMBDA r : r.person_id = pid)
        Term(i) == YearlyTerms(mine[i], custom_payroll_map)
        Total(f) == SumSeq([i \in DOMAIN mine |-> Term(i)[f]])
        months == Len(mine)
    IN  [person_id |-> pid, year |-> year, months |-> months,
         total_gross |-> Total("cash_income"),
         total_net |-> Total("cash_income"),
         avg_net |-> IF months # 0
                     THEN DecimalDiv(Total("actual_take_home"), months)
                     ELSE DecimalOf(0),
         insurance_total |-> Total("insurance_total"),
         tax_total |-> Total("tax"),
         allowances_total |-> Total("allowances_total"),
         bonuses_total |-> Total("bonuses_total"),
         total_actual_take_home |-> Total("actual_take_home"),
         total_non_cash_benefits |-> Total("benefits_total")]

\* the YearlyStats of stats_map[pid] after the loop over recs
YearlyRow(pid, year, recs, custom_payroll_map) ==
    LET mine == SelectSeq(recs, LAMBDA r : r.person_id = pid)
        Term(i) == YearlyTerms(mine[i], custom_payroll_map)
        Total(f) == SumSeq([i \in DOMAIN mine |-> Term(i)[f]])
        months == Len(mine)
    IN  [person_id |-> pid, year |-> year, months |-> months,
         total_gross |-> Total("cash_income"),
         total_net |-> Total("actual_take_home"),
         avg_net |-> IF months # 0
                     THEN DecimalDiv(Total("actual_take_home"), months)
                     ELSE DecimalOf(0),
         insurance_total |-> Total("insurance_total"),
         tax_total |-> Total("tax"),
         allowances_total |-> Total("allowances_total"),
         bonuses_total |-> Total("bonuses_total"),
         total_actual_take_home |-> Total("actual_take_home"),
         total_non_cash_benefits |-> Total("benefits_total")]

\* Person.filter(user_id=user.id)
PersonsOf(user_id) == {p \in DOMAIN persons : persons[p].user_id = user_id}

yearly_stats(user_id, person_id, year) ==
    LET args == <<user_id, person_id, year>>
        person_ids == IF person_id # 0 THEN {person_id} ELSE PersonsOf(user_id)
        recs == AllRows({r \in records :
                            r.person_id \in person_ids /\ r.year = year})
        custom_payroll_map ==
            load_custom_fields_for_payroll({recs[i].id : i \in DOMAIN recs})
        pids == FirstSeen(recs, {})
    IN  IF person_id # 0 /\ person_id \notin PersonsOf(user_id)
        THEN Response("yearly_stats", args, 404, <<>>)
        ELSE Response("yearly_stats", args, 200,
                [i \in DOMAIN pids |->
                    YearlyRow(pids[i], year, recs, custom_payroll_map)])

\* mutant of family_summary: by_person adds up the cash income
FamilySummaryByPersonGross(user_id, year) ==
    LET person_ids == SortedBy(PersonsOf(user_id), LAMBDA p : p)
        recs == AllRows({r \in records :
                            r.person_id \in PersonsOf(user_id) /\ r.year = year})
        custom_payroll_map ==
            load_custom_fields_for_payroll({recs[i].id : i \in DOMAIN recs})
        Term(i) == YearlyTerms(recs[i], custom_payroll_map)
        Total(f) == SumSeq([i \in DOMAIN recs |-> Term(i)[f]])
        OfPerson(pid) == SelectSeq([i \in DOMAIN recs |->
                                       [person_id |-> recs[i].person_id,
                                        term |-> Term(i)]],
                                   LAMBDA x : x.person_id = pid)
    IN  Response("family_summary", <<user_id, year>>, 200,
            [year |-> year,
             persons |-> person_ids,
             total_gross |-> Total("cash_income"),
             total_net |-> Total("actual_take_home"),
             insurance_total |-> Total("insurance_total"),
             tax_total |-> Total("tax"),
             by_person |->
                [pid \in PersonsOf(user_id) |->
                    SumSeq([i \in DOMAIN OfPerson(pid) |->
                              OfPerson(pid)[i].term.cash_income])]])

family_summary(user_id, year) ==
    LET person_ids == SortedBy(PersonsOf(user_id), LAMBDA p : p)
        recs == AllRows({r \in records :
                            r.person_id \in PersonsOf(user_id) /\ r.year = year})
        custom_payroll_map ==
            load_custom_fields_for_payroll({recs[i].id : i \in DOMAIN recs})
        Term(i) == YearlyTerms(recs[i], custom_payroll_map)
        Total(f) == SumSeq([i \in DOMAIN recs |-> Term(i)[f]])
        OfPerson(pid) == SelectSeq([i \in DOMAIN recs |->
                                       [person_id |-> recs[i].person_id,
                                        term |-> Term(i)]],
                                   LAMBDA x : x.person_id = pid)
    IN  Response("family_summary", <<user_id, year>>, 200,
            [year |-> year,
             persons |-> person_ids,
             total_gross |-> Total("cash_income"),
             total_net |-> Total("actual_take_home"),
             insurance_total |-> Total("insurance_total"),
             tax_total |-> Total("tax"),
             by_person |->
                [pid \in PersonsOf(user_id) |->
                    SumSeq([i \in DOMAIN OfPerson(pid) |->
                              OfPerson(pid)[i].term.actual_take_home])]])

cumulative_insurance(user_id) ==
    LET mine == SortedBy(PersonsOf(user_id), LAMBDA p : p)
        Row(pid) ==
            LET person == persons[pid]
                recs == AllRows({r \in records : r.person_id = pid})
                pension_system ==
                    SumSeq([i \in DOMAIN recs |-> recs[i].pension_insurance])
                medical_system ==
                    SumSeq([i \in DOMAIN recs |-> recs[i].medical_insurance])
                housing_fund_system ==
                    SumSeq([i \in DOMAIN recs |-> recs[i].housing_fund])
            IN  [person_id |-> pid,
                 pension_history |-> person.pension_history,
                 medical_history |-> person.medical_history,
                 housing_fund_history |-> person.housing_fund_history,
                 pension_system |-> pension_system,
                 medical_system |-> medical_system,
                 housing_fund_system |-> housing_fund_system,
                 pension_total |-> _D(person.pension_history) + _D(pension_system),
                 medical_total |-> _D(person.medical_history) + _D(medical_system),
                 housing_fund_total |->
                     _D(person.housing_fund_history) + _D(housing_fund_system)]
    IN  Response("cumulative_insurance", <<user_id>>, 200,
                 [i \in DOMAIN mine |-> Row(mine[i])])

(***************************************************************************)
(* stats.py: income_composition                                            *)
(*                                                                         *)
(* float() of an amount is the amount: the reply writes a two-place amount *)
(* as the same number. A percent is float() of a Decimal quotient, a       *)
(* double [neg, m, k].                                                     *)
(***************************************************************************)
FloatZero == [neg |-> FALSE, m |-> <<>>, k |-> 0]

\* mutant of IncomePercent: the quotient is not taken times 100
IncomePercentUnscaled(amount, total_income) ==
    IF total_income > 0
    THEN float(DecimalDiv(amount, total_income))
    ELSE FloatZero

\* mutant of IncomePercent: a share of no income is a whole
IncomePercentOfNothingIsWhole(amount, total_income) ==
    IF total_income > 0
    THEN float(DecimalTimes100(DecimalDiv(amount, total_income)))
    ELSE float(DecimalOf(100))

\* float(_D(amount) / _D(total_income) * 100) if total_income > 0, else 0.0
IncomePercent(amount, total_income) ==
    IF total_income > 0
    THEN float(DecimalTimes100(DecimalDiv(amount, total_income)))
    ELSE FloatZero

\* the income entries of custom_items with the given non-cash flag
IncomeEntries(custom_items, non_cash) ==
    SelectSeq(custom_items,
              LAMBDA cf : cf.field_type = "income" /\ cf.is_non_cash = non_cash)

\* the items listed of them: those of amount # 0
ItemsOf(entries, fallback) ==
    LET listed == SelectSeq(entries, LAMBDA cf : cf.amount # 0)
    IN  [i \in DOMAIN listed |->
            [key |-> listed[i].field_key,
             label |-> IF listed[i].label # "" THEN listed[i].label
                       ELSE IF listed[i].field_key # ""
                            THEN listed[i].field_key ELSE fallback,
             amount |-> listed[i].amount]]

AmountsOf(entries) == [i \in DOMAIN entries |-> _D(entries[i].amount)]

IncomeRowOf(r, allowances, base_other, benefits, other_income, total_income, custom_items, custom_non_cash_items) ==
    [person_id |-> r.person_id, year |-> r.year, month |-> r.month,
     base_salary |-> _D(r.base_salary),
     performance_salary |-> _D(r.performance_salary),
     high_temp_allowance |-> _D(_F(r, "high_temp_allowance")),
     low_temp_allowance |-> _D(_F(r, "low_temp_allowance")),
     computer_allowance |-> _D(_F(r, "computer_allowance")),
     communication_allowance |-> _D(_F(r, "communication_allowance")),
     comprehensive_allowance |-> _D(_F(r, "comprehensive_allowance")),
     meal_allowance |-> _D(_F(r, "meal_allowance")),
     mid_autumn_benefit |-> _D(_F(r, "mid_autumn_benefit")),
     dragon_boat_benefit |-> _D(_F(r, "dragon_boat_benefit")),
     spring_festival_benefit |-> _D(_F(r, "spring_festival_benefit")),
     other_income |-> other_income,
     other_income_base |-> base_other,
     non_cash_benefits |-> _D(benefits),
     custom_income_items |-> custom_items,
     custom_non_cash_items |-> custom_non_cash_items,
     total_income |-> total_income,
     base_salary_percent |-> IncomePercent(_D(r.base_salary), total_income),
     performance_percent |->
        IncomePercent(_D(r.performance_salary), total_income),
     allowances_percent |-> IncomePercent(_D(allowances), total_income),
     benefits_percent |-> IncomePercent(_D(benefits), total_income),
     other_percent |-> IncomePercent(_D(other_income), total_income)]

\* mutant of IncomeRow: total_income is the cash income less the custom
\* deductions
IncomeRowLessDeductions(r, custom_payroll_map) ==
    LET cash == IncomeEntries(MapGet(custom_payroll_map, r.id), FALSE)
        non_cash == IncomeEntries(MapGet(custom_payroll_map, r.id), TRUE)
        custom_cash == SumSeq(AmountsOf(cash))
        custom_non_cash == SumSeq(AmountsOf(non_cash))
        allowances == _allowances_sum_full(r)
        base_other == _D(_F(r, "other_income"))
        benefits == _benefits_sum(r) + custom_non_cash
        other_income == base_other + custom_cash
    IN  IncomeRowOf(r, allowances, base_other, benefits, other_income,
                    _D(r.base_salary) + _D(r.performance_salary)
                    + _D(allowances) + _D(benefits) + _D(other_income)
                    - _custom_sums(MapGet(custom_payroll_map, r.id))[3],
                    ItemsOf(cash, "custom income"), ItemsOf(non_cash, "custom benefit"))

\* the loop body of income_composition
IncomeRow(r, custom_payroll_map) ==
    LET cash == IncomeEntries(MapGet(custom_payroll_map, r.id), FALSE)
        non_cash == IncomeEntries(MapGet(custom_payroll_map, r.id), TRUE)
        custom_cash == SumSeq(AmountsOf(cash))
        custom_non_cash == SumSeq(AmountsOf(non_cash))
        allowances == _allowances_sum_full(r)
        base_other == _D(_F(r, "other_income"))
        benefits == _benefits_sum(r) + custom_non_cash
        other_income == base_other + custom_cash
    IN  IncomeRowOf(r, allowances, base_other, benefits, other_income,
                    _D(r.base_salary) + _D(r.performance_salary)
                    + _D(allowances) + _D(benefits) + _D(other_income),
                    ItemsOf(cash, "custom income"), ItemsOf(non_cash, "custom benefit"))

IncomeRows(recs, custom_payroll_map) ==
    [i \in DOMAIN recs |-> IncomeRow(recs[i], custom_payroll_map)]

income_composition(user_id, person_id, year, month, range) ==
    LET args == <<user_id, person_id, year, month, range>>
        Reply(kept) ==
            IF kept.exc # "none"
            THEN Response("income_composition", args, 500, <<>>)
            ELSE Response("income_composition", args, 200,
                    IncomeRows(kept.val,
                        load_custom_fields_for_payroll(
                            {kept.val[i].id : i \in DOMAIN kept.val})))
    IN  Reply(_apply_range(
                AllRows(_salary_query(user_id, person_id, year, month)),
                range))

(***************************************************************************)
(* stats.py: deductions_breakdown                                          *)
(***************************************************************************)
\* (name, key); the names are Chinese in the source, written in English here
categories ==
    << <<"pension insurance", "pension_insurance">>,
       <<"medical insurance", "medical_insurance">>,
       <<"unemployment insurance", "unemployment_insurance">>,
       <<"critical illness insurance", "critical_illness_insurance">>,
       <<"enterprise annuity", "enterprise_annuity">>,
       <<"housing fund", "housing_fund">>,
       <<"other deductions", "other_deductions">>,
       <<"labor union", "labor_union_fee">>,
       <<"performance deduction", "performance_deduction">> >>

CategoryKeys == {categories[i][2] : i \in DOMAIN categories}

\* the custom_deduction of one record
CustomDeduction(r, custom_payroll_map) ==
    SumSeq(AmountsOf(SelectSeq(MapGet(custom_payroll_map, r.id),
                               LAMBDA cf : cf.field_type = "deduction")))

\* mutant of CategoryTerm: custom deductions go to performance_deduction
CategoryTermCustomElsewhere(r, key, custom_payroll_map) ==
    IF key = "performance_deduction"
    THEN _D(_F(r, key)) + CustomDeduction(r, custom_payroll_map)
    ELSE _D(_F(r, key))

\* what one record adds to the bucket of key
CategoryTerm(r, key, custom_payroll_map) ==
    IF key = "other_deductions"
    THEN _D(_F(r, key)) + CustomDeduction(r, custom_payroll_map)
    ELSE _D(_F(r, key))

\* the buckets after the loop over recs
CategoryTotals(recs, custom_payroll_map) ==
    [key \in CategoryKeys |->
        SumSeq([i \in DOMAIN recs |->
                    CategoryTerm(recs[i], key, custom_payroll_map)])]

\* mutant of DeductionPercent: the share is not taken times 100
DeductionPercentUnscaled(amount, grand_total) ==
    IF grand_total > 0
    THEN float(DecimalDiv(amount, grand_total))
    ELSE FloatZero

\* float((amount / grand_total * 100) if grand_total > 0 else 0)
DeductionPercent(amount, grand_total) ==
    IF grand_total > 0
    THEN float(DecimalTimes100(DecimalDiv(amount, grand_total)))
    ELSE FloatZero

SummaryOf(totals, grand_total) ==
    [i \in DOMAIN categories |->
        [category |-> categories[i][1],
         amount |-> totals[categories[i][2]],
         percent |-> DeductionPercent(totals[categories[i][2]], grand_total)]]

\* mutant of MonthKeys: the keys stay in the order the records come in
MonthKeysInRecordOrder(recs) ==
    IF recs = <<>> THEN <<>>
    ELSE LET seen == {<<recs[j].year, recs[j].month>> : j \in 1..Len(recs)}
             Firsts == SelectSeq([i \in DOMAIN recs |-> i],
                            LAMBDA i : \A j \in 1..(i - 1) :
                                <<recs[j].year, recs[j].month>>
                                    # <<recs[i].year, recs[i].month>>)
         IN  [i \in DOMAIN Firsts |->
                <<recs[Firsts[i]].year, recs[Firsts[i]].month>>]

\* sorted(monthly_map.keys())
MonthKeys(recs) ==
    SortedBy({<<recs[i].year, recs[i].month>> : i \in DOMAIN recs},
             LAMBDA k : k[1] * 100 + k[2])

MonthlyPoint(k, data) ==
    [year |-> k[1], month |-> k[2],
     pension_insurance |-> data["pension_insurance"],
     medical_insurance |-> data["medical_insurance"],
     unemployment_insurance |-> data["unemployment_insurance"],
     critical_illness_insurance |-> data["critical_illness_insurance"],
     enterprise_annuity |-> data["enterprise_annuity"],
     housing_fund |-> data["housing_fund"],
     other_deductions |-> data["other_deductions"],
     labor_union_fee |-> data["labor_union_fee"],
     performance_deduction |-> data["performance_deduction"],
     total |-> SumSeq([i \in DOMAIN categories |-> data[categories[i][2]]])]

MonthlySeries(recs, keys, custom_payroll_map) ==
    [i \in DOMAIN keys |->
        MonthlyPoint(keys[i],
            CategoryTotals(SelectSeq(recs, LAMBDA r : <<r.year, r.month>> = keys[i]),
                           custom_payroll_map))]

BreakdownOf(recs, totals, custom_payroll_map) ==
    [summary |-> SummaryOf(totals,
                    SumSeq([i \in DOMAIN categories |-> totals[categories[i][2]]])),
     monthly |-> MonthlySeries(recs, MonthKeys(recs), custom_payroll_map)]

BreakdownOver(recs, custom_payroll_map) ==
    BreakdownOf(recs, CategoryTotals(recs, custom_payroll_map),
                custom_payroll_map)

deductions_breakdown(user_id, person_id, year, month, range) ==
    LET args == <<user_id, person_id, year, month, range>>
        Reply(kept) ==
            IF kept.exc # "none"
            THEN Response("deductions_breakdown", args, 500, <<>>)
            ELSE Response("deductions_breakdown", args, 200,
                    BreakdownOver(kept.val,
                        load_custom_fields_for_payroll(
                            {kept.val[i].id : i \in DOMAIN kept.val})))
    IN  Reply(_apply_range(
                AllRows(_salary_query(user_id, person_id, year, month)),
                range))

(***************************************************************************)
(* stats.py: contributions_cumulative                                      *)
(***************************************************************************)
\* the running sums over the first n rows of all_recs that are in range
RECURSIVE CumulativePoints(_, _, _, _)
CumulativePoints(all_recs, start_num, end_num, base) ==
    IF all_recs = <<>> THEN <<>>
    ELSE LET r  == Head(all_recs)
             ym == _ym_num(r.year, r.month)
         IN  IF ym < start_num \/ ym > end_num
             THEN CumulativePoints(Tail(all_recs), start_num, end_num, base)
             ELSE LET cur == <<base[1] + _D(r.pension_insurance),
                               base[2] + _D(r.medical_insurance),
                               base[3] + _D(r.housing_fund)>>
                  IN  <<[year |-> r.year, month |-> r.month,
                         pension_cumulative |-> cur[1],
                         medical_cumulative |-> cur[2],
                         housing_fund_cumulative |-> cur[3]]>>
                      \o CumulativePoints(Tail(all_recs), start_num, end_num, cur)

\* mutant of BaseOffsets: records before the range start are not carried over
BaseOffsetsHistoryOnly(person, all_recs, start_num) ==
    <<_D(person.pension_history), _D(person.medical_history),
      _D(person.housing_fund_history)>>

\* history plus the contributions of the records before the range start
BaseOffsets(person, all_recs, start_num) ==
    LET before == SelectSeq(all_recs,
                            LAMBDA r : _ym_num(r.year, r.month) < start_num)
    IN  <<_D(person.pension_history)
            + SumSeq([i \in DOMAIN before |-> _D(before[i].pension_insurance)]),
          _D(person.medical_history)
            + SumSeq([i \in DOMAIN before |-> _D(before[i].medical_insurance)]),
          _D(person.housing_fund_history)
            + SumSeq([i \in DOMAIN before |-> _D(before[i].housing_fund)])>>

contributions_cumulative(user_id, person_id, range) ==
    LET args == <<user_id, person_id, range>>
        found == person_id \in DOMAIN persons
                    /\ persons[person_id].user_id = user_id
        Totals(person, all_recs, pension_system_total, medical_system_total, housing_system_total, points) ==
            [person_id |-> person_id,
             pension_history |-> person.pension_history,
             medical_history |-> person.medical_history,
             housing_fund_history |-> person.housing_fund_history,
             points |-> points,
             pension_system_total |-> pension_system_total,
             medical_system_total |-> medical_system_total,
             housing_fund_system_total |-> housing_system_total,
             pension_total |->
                 _D(person.pension_history) + _D(pension_system_total),
             medical_total |->
                 _D(person.medical_history) + _D(medical_system_total),
             housing_fund_total |->
                 _D(person.housing_fund_history) + _D(housing_system_total)]
        Points(person, all_recs, start_num, end_num) ==
            CumulativePoints(all_recs, start_num, end_num,
                             BaseOffsets(person, all_recs, start_num))
        Reply(person, all_recs, parsed) ==
            IF parsed.exc # "none"
            THEN Response("contributions_cumulative", args, 500, <<>>)
            ELSE Response("contributions_cumulative", args, 200,
                    Totals(person, all_recs,
                        SumSeq([i \in DOMAIN all_recs |->
                                    _D(all_recs[i].pension_insurance)]),
                        SumSeq([i \in DOMAIN all_recs |->
                                    _D(all_recs[i].medical_insurance)]),
                        SumSeq([i \in DOMAIN all_recs |->
                                    _D(all_recs[i].housing_fund)]),
                        Points(person, all_recs, parsed.val[1], parsed.val[2])))
    IN  IF ~found
        THEN Response("contributions_cumulative", args, 404, <<>>)
        ELSE Reply(persons[person_id],
                   SortedBy({r \in records : r.person_id = person_id},
                            LAMBDA r : _ym_num(r.year, r.month)),
                   IF range # None /\ range # <<>>
                   THEN _parse_range(range) ELSE Returned(<<0, 999999>>))

(***************************************************************************)
(* salaries.py: the write routes                                           *)
(***************************************************************************)
\* a request's custom_fields: absent (None) or a mapping field_key -> amount
NotGiven == [given |-> FALSE, map |-> [k \in {} |-> 0]]
Given(map) == [given |-> TRUE, map |-> map]

\* SalaryField.filter(user_id=user_id, is_active=True), keyed by field_key
ActiveFieldMap(user_id) ==
    LET ids == {fid \in DOMAIN salary_fields :
                    /\ salary_fields[fid].user_id = user_id
                    /\ salary_fields[fid].is_active}
        keys == {salary_fields[fid].field_key : fid \in ids}
    IN  [k \in keys |-> CHOOSE fid \in ids : salary_fields[fid].field_key = k]

\* mutant of save_custom_fields: the old values of the record are kept
SaveCustomFieldsKeepsOld(values, record_id, user_id, custom_fields) ==
    IF DOMAIN custom_fields = {} THEN values
    ELSE LET field_map == ActiveFieldMap(user_id)
         IN  values
             \cup {CustomValueRow(record_id, field_map[k], custom_fields[k]) :
                     k \in {x \in DOMAIN custom_fields :
                             x \in DOMAIN field_map /\ custom_fields[x] # 0}}

\* mutant of save_custom_fields: an empty mapping clears the record's values
SaveCustomFieldsClearsOnEmpty(values, record_id, user_id, custom_fields) ==
    LET field_map == ActiveFieldMap(user_id)
    IN  {v \in values : v.salary_record_id # record_id}
        \cup {CustomValueRow(record_id, field_map[k], custom_fields[k]) :
                k \in {x \in DOMAIN custom_fields :
                        x \in DOMAIN field_map /\ custom_fields[x] # 0}}

\* the CustomSalaryValue table after save_custom_fields(record_id, user_id,
\* custom_fields), values being the table before
save_custom_fields(values, record_id, user_id, custom_fields) ==
    IF DOMAIN custom_fields = {} THEN values
    ELSE LET field_map == ActiveFieldMap(user_id)
         IN  {v \in values : v.salary_record_id # record_id}
             \cup {CustomValueRow(record_id, field_map[k], custom_fields[k]) :
                     k \in {x \in DOMAIN custom_fields :
                             x \in DOMAIN field_map /\ custom_fields[x] # 0}}

\* the unique index of SalaryRecord on (person, year, month): create() and
\* save() raise IntegrityError when another row has the key
KeyTaken(rows, person_id, year, month, except_id) ==
    \E r \in rows :
        /\ r.id # except_id
        /\ r.person_id = person_id /\ r.year = year /\ r.month = month

OwnsPerson(user_id, person_id) ==
    person_id \in DOMAIN persons /\ persons[person_id].user_id = user_id

\* SalaryRecord.filter(id=record_id, person__user_id=user.id).first()
OwnedRecord(user_id, record_id) ==
    {r \in records : r.id = record_id /\ persons[r.person_id].user_id = user_id}

Outcome(rows, values, id, reply) ==
    [records |-> rows, custom_values |-> values, next_id |-> id, resp |-> reply]

\* mutant of create_salary: the IntegrityError is answered with 409
CreateSalaryAnswers409(user_id, person_id, payload) ==
    LET args == <<user_id, person_id, payload.year, payload.month,
                  payload.custom_fields>>
        rec  == SalaryRecordRow(next_id, person_id, payload.year, payload.month,
                                payload.amounts)
    IN  IF ~OwnsPerson(user_id, person_id)
        THEN Outcome(records, custom_values, next_id,
                     Response("create_salary", args, 404, <<>>))
        ELSE IF KeyTaken(records, person_id, payload.year, payload.month, 0)
        THEN Outcome(records, custom_values, next_id,
                     Response("create_salary", args, 409, <<>>))
        ELSE Outcome(records \cup {rec},
                     IF payload.custom_fields.given
                     THEN save_custom_fields(custom_values, rec.id, user_id,
                                             payload.custom_fields.map)
                     ELSE custom_values,
                     next_id + 1,
                     Response("create_salary", args, 200, [id |-> rec.id]))

create_salary(user_id, person_id, payload) ==
    LET args == <<user_id, person_id, payload.year, payload.month,
                  payload.custom_fields>>
        rec  == SalaryRecordRow(next_id, person_id, payload.year, payload.month,
                                payload.amounts)
    IN  IF ~OwnsPerson(user_id, person_id)
        THEN Outcome(records, custom_values, next_id,
                     Response("create_salary", args, 404, <<>>))
        ELSE IF KeyTaken(records, person_id, payload.year, payload.month, 0)
        THEN Outcome(records, custom_values, next_id,
                     Response("create_salary", args, 400, <<>>))
        ELSE Outcome(records \cup {rec},
                     \* `if payload.custom_fields:` is false of None and of {}
                     IF payload.custom_fields.given
                     THEN save_custom_fields(custom_values, rec.id, user_id,
                                             payload.custom_fields.map)
                     ELSE custom_values,
                     next_id + 1,
                     Response("create_salary", args, 200, [id |-> rec.id]))

\* mutant of Updated: the row keeps the values it had
UpdatedKeepsOld(rec, changes) == rec

\* setattr(rec, field, value) for every field the payload sets
Updated(rec, changes) ==
    [f \in DOMAIN rec \cup DOMAIN changes |->
        IF f \in DOMAIN changes THEN changes[f] ELSE rec[f]]

update_salary(user_id, record_id, payload) ==
    LET args  == <<record_id, user_id, payload.custom_fields>>
        found == OwnedRecord(user_id, record_id)
        rec   == CHOOSE r \in found : TRUE
        new   == Updated(rec, payload.changes)
    IN  IF found = {}
        THEN Outcome(records, custom_values, next_id,
                     Response("update_salary", args, 404, <<>>))
        ELSE IF KeyTaken(records, new.person_id, new.year, new.month, rec.id)
        THEN \* rec.save() raises IntegrityError, which nothing catches
             Outcome(records, custom_values, next_id,
                     Response("update_salary", args, 500, <<>>))
        ELSE Outcome((records \ {rec}) \cup {new},
                     IF payload.custom_fields.given
                     THEN save_custom_fields(custom_values, rec.id, user_id,
                                             payload.custom_fields.map)
                     ELSE custom_values,
                     next_id,
                     Response("update_salary", args, 200, [id |-> rec.id]))

\* mutant of delete_salary: the values of the record are left behind
DeleteSalaryLeavesValues(user_id, record_id) ==
    LET args  == <<record_id, user_id>>
        found == OwnedRecord(user_id, record_id)
    IN  IF found = {}
        THEN Outcome(records, custom_values, next_id,
                     Response("delete_salary", args, 404, <<>>))
        ELSE Outcome(records \ found, custom_values, next_id,
                     Response("delete_salary", args, 200, [ok |-> TRUE]))

delete_salary(user_id, record_id) ==
    LET args  == <<record_id, user_id>>
        found == OwnedRecord(user_id, record_id)
    IN  IF found = {}
        THEN Outcome(records, custom_values, next_id,
                     Response("delete_salary", args, 404, <<>>))
        ELSE Outcome(records \ found,
                     {v \in custom_values : v.salary_record_id # record_id},
                     next_id,
                     Response("delete_salary", args, 200, [ok |-> TRUE]))

\* import_salaries: the rows of the file one after the other; st is the
\* tables and counters so far. A row that raises ends the request and keeps
\* what the rows before it wrote.
RECURSIVE ImportRows(_, _, _, _, _)
ImportRows(rows, user_id, person_id, mode, st) ==
    IF rows = <<>> \/ st.status # 200 THEN st
    ELSE LET row == Head(rows)
             row_person_id ==
                 IF row.person_id # 0 THEN row.person_id ELSE person_id
             existing == {r \in st.records :
                            /\ r.person_id = row_person_id
                            /\ r.year = row.year /\ r.month = row.month}
             rec == IF existing # {}
                    THEN Updated(CHOOSE r \in existing : TRUE, row.amounts)
                    ELSE SalaryRecordRow(st.next_id, row_person_id, row.year,
                                         row.month, row.amounts)
             \* the active keys of the user that are columns of the file
             custom_fields ==
                 [k \in DOMAIN ActiveFieldMap(user_id) \cap DOMAIN row.custom
                    |-> row.custom[k]]
         IN  IF row_person_id = 0
             THEN [st EXCEPT !.status = 400]
             ELSE IF ~OwnsPerson(user_id, row_person_id)
             THEN [st EXCEPT !.status = 404]
             ELSE IF existing # {} /\ mode = "skip"
             THEN ImportRows(Tail(rows), user_id, person_id, mode,
                             [st EXCEPT !.skipped = @ + 1])
             ELSE IF existing # {} /\ mode = "error"
             THEN [st EXCEPT !.status = 400]
             ELSE ImportRows(Tail(rows), user_id, person_id, mode,
                    [st EXCEPT
                        !.records = (@ \ existing) \cup {rec},
                        !.custom_values =
                            save_custom_fields(@, rec.id, user_id, custom_fields),
                        !.next_id = IF existing # {} THEN @ ELSE @ + 1,
                        !.updated = IF existing # {} THEN @ + 1 ELSE @,
                        !.created = IF existing # {} THEN @ ELSE @ + 1])

import_salaries(user_id, person_id, mode, rows) ==
    LET Reply(st) ==
            Outcome(st.records, st.custom_values, st.next_id,
                Response("import_salaries", <<mode, user_id, person_id, rows>>,
                         st.status,
                         IF st.status = 200
                         THEN [created |-> st.created, updated |-> st.updated,
                               skipped |-> st.skipped]
                         ELSE <<>>))
    IN  Reply(ImportRows(rows, user_id, person_id, mode,
                         [records |-> records, custom_values |-> custom_values,
                          next_id |-> next_id, status |-> 200, created |-> 0,
                          updated |-> 0, skipped |-> 0]))

(***************************************************************************)
(* salaries.py: reading one record back                                    *)
(***************************************************************************)
\* the sum of the amounts of the entries of a list that satisfy Keep
SumEntries(entries, Keep(_)) ==
    LET kept == SelectSeq(entries, Keep)
    IN  SumSeq([i \in DOMAIN kept |-> kept[i].amount])

\* services/payroll.py compute_payroll, the Payroll Calculator: the totals
\* of one record from its fixed amounts and its custom entries
compute_payroll(base_salary, performance_salary, pension_insurance, medical_insurance, unemployment_insurance, critical_illness_insurance, enterprise_annuity, housing_fund, tax, custom_fields) ==
    LET custom_income ==
            SumEntries(custom_fields, LAMBDA e : e.field_type = "income")
        custom_deductions ==
            SumEntries(custom_fields, LAMBDA e : e.field_type = "deduction")
        total_income == base_salary + performance_salary + custom_income
        total_deductions ==
            pension_insurance + medical_insurance + unemployment_insurance
            + critical_illness_insurance + enterprise_annuity + housing_fund
            + custom_deductions
        net_income == total_income - total_deductions - tax
        non_cash_benefits ==
            SumEntries(custom_fields,
                       LAMBDA e : e.field_type = "income" /\ e.is_non_cash)
    IN  [total_income |-> total_income,
         total_deductions |-> total_deductions,
         gross_income |-> total_income,
         net_income |-> net_income,
         non_cash_benefits |-> non_cash_benefits,
         actual_take_home |-> net_income - non_cash_benefits,
         tax |-> tax]

\* load_custom_fields(record_ids): for every record that has values, the
\* mapping field_key -> amount and the list of payroll entries
load_custom_fields(record_ids) ==
    LET Of(rid) == SortedBy({v \in custom_values : v.salary_record_id = rid},
                            LAMBDA v : v.salary_field_id)
        KeysOf(rid) == {salary_fields[v.salary_field_id].field_key :
                            v \in {x \in custom_values : x.salary_record_id = rid}}
        \* a later value of the same key overwrites an earlier one
        Last(rid, k) ==
            Of(rid)[CHOOSE i \in DOMAIN Of(rid) :
                /\ salary_fields[Of(rid)[i].salary_field_id].field_key = k
                /\ \A j \in DOMAIN Of(rid) :
                    salary_fields[Of(rid)[j].salary_field_id].field_key = k
                        => j <= i]
        Entry(v) ==
            [field_type |-> salary_fields[v.salary_field_id].field_type,
             is_non_cash |-> salary_fields[v.salary_field_id].is_non_cash,
             amount |-> v.amount]
        with == {rid \in record_ids :
                    \E v \in custom_values : v.salary_record_id = rid}
    IN  [by_record |->
            [rid \in with |-> [k \in KeysOf(rid) |-> Last(rid, k).amount]],
         payroll_by_record |->
            [rid \in with |-> [i \in DOMAIN Of(rid) |-> Entry(Of(rid)[i])]]]

\* the fixed columns SalaryOut carries
SalaryOutFields ==
    <<"base_salary", "performance_salary", "pension_insurance",
      "medical_insurance", "unemployment_insurance",
      "critical_illness_insurance", "enterprise_annuity", "housing_fund">>

\* mutant of build_salary_out: the Calculator is given no custom entries
BuildSalaryOutWithoutCustom(rec, custom_fields_data, custom_fields_payroll) ==
    LET data == compute_payroll(_F(rec, "base_salary"),
                                _F(rec, "performance_salary"),
                                _F(rec, "pension_insurance"),
                                _F(rec, "medical_insurance"),
                                _F(rec, "unemployment_insurance"),
                                _F(rec, "critical_illness_insurance"),
                                _F(rec, "enterprise_annuity"),
                                _F(rec, "housing_fund"),
                                _F(rec, "tax"),
                                <<>>)
    IN  [id |-> rec.id, year |-> rec.year, month |-> rec.month]
        @@ [f \in Range(SalaryOutFields) |-> _F(rec, f)]
        @@ [tax |-> data.tax,
            total_income |-> data.total_income,
            total_deductions |-> data.total_deductions,
            gross_income |-> data.gross_income,
            net_income |-> data.net_income,
            actual_take_home |-> data.actual_take_home,
            non_cash_benefits |-> data.non_cash_benefits,
            custom_fields |-> custom_fields_data]

build_salary_out(rec, custom_fields_data, custom_fields_payroll) ==
    LET data == compute_payroll(_F(rec, "base_salary"),
                                _F(rec, "performance_salary"),
                                _F(rec, "pension_insurance"),
                                _F(rec, "medical_insurance"),
                                _F(rec, "unemployment_insurance"),
                                _F(rec, "critical_illness_insurance"),
                                _F(rec, "enterprise_annuity"),
                                _F(rec, "housing_fund"),
                                _F(rec, "tax"),
                                custom_fields_payroll)
    IN  [id |-> rec.id, year |-> rec.year, month |-> rec.month]
        @@ [f \in Range(SalaryOutFields) |-> _F(rec, f)]
        @@ [tax |-> data.tax,
            total_income |-> data.total_income,
            total_deductions |-> data.total_deductions,
            gross_income |-> data.gross_income,
            net_income |-> data.net_income,
            actual_take_home |-> data.actual_take_home,
            non_cash_benefits |-> data.non_cash_benefits,
            custom_fields |-> custom_fields_data]

\* dict.get(key, {})
MapGetDict(map, key) == IF key \in DOMAIN map THEN map[key] ELSE [k \in {} |-> 0]

get_salary(user_id, record_id) ==
    LET found  == OwnedRecord(user_id, record_id)
        rec    == CHOOSE r \in found : TRUE
        loaded == load_custom_fields({rec.id})
    IN  IF found = {}
        THEN Response("get_salary", <<user_id, record_id>>, 404, <<>>)
        ELSE Response("get_salary", <<user_id, record_id>>, 200,
                      build_salary_out(rec,
                                       MapGetDict(loaded.by_record, rec.id),
                                       MapGet(loaded.payroll_by_record, rec.id)))

(***************************************************************************)
(* salaries.py: the payslip of a record                                    *)
(***************************************************************************)
\* the figures _payslip_context hands to the two payslip routes and they
\* show: the month, the take-home of the Calculator, base and performance
\* salary, the six insurance amounts added up, the tax and the note
_payslip_context(rec) ==
    LET loaded == load_custom_fields({rec.id})
        calc == build_salary_out(rec, MapGetDict(loaded.by_record, rec.id),
                                 MapGet(loaded.payroll_by_record, rec.id))
    IN  [year |-> rec.year, month |-> rec.month,
         net |-> calc.actual_take_home,
         base_salary |-> _F(rec, "base_salary"),
         performance_salary |-> _F(rec, "performance_salary"),
         insurance_total |->
            _F(rec, "pension_insurance") + _F(rec, "medical_insurance")
            + _F(rec, "unemployment_insurance")
            + _F(rec, "critical_illness_insurance")
            + _F(rec, "enterprise_annuity") + _F(rec, "housing_fund"),
         tax |-> _F(rec, "tax")]

\* payslip_svg and payslip_html: route is "payslip_svg" or "payslip_html"
payslip(route, user_id, record_id) ==
    LET found == OwnedRecord(user_id, record_id)
    IN  IF found = {}
        THEN Response(route, <<user_id, record_id>>, 404, <<>>)
        ELSE Response(route, <<user_id, record_id>>, 200,
                      _payslip_context(CHOOSE r \in found : TRUE))

(***************************************************************************)
(* salary_templates.py: the template of a person                           *)
(*                                                                         *)
(* A request carries its amounts as floats, which may have more places     *)
(* than the columns of SalaryTemplate keep: the amounts of a payload and   *)
(* of a reply are integers of thousandths here, those of a stored row      *)
(* integers of cents.                                                      *)
(***************************************************************************)
\* the nine DecimalField columns of SalaryTemplate, the fields of
\* SalaryTemplateUpsert
TemplateFields == CoreFields

\* DecimalField(max_digits=15, decimal_places=2) of a float: the amount to
\* the nearest cent, a tie to the even cent
Quantize(thousandths) ==
    LET a == Abs(thousandths)
        q == a \div 10
        r == a % 10
        cents == IF r < 5 THEN q
                 ELSE IF r > 5 THEN q + 1
                 ELSE IF q % 2 = 0 THEN q ELSE q + 1
    IN  IF thousandths < 0 THEN 0 - cents ELSE cents

\* float() of a stored amount
FromCents(cents) == cents * 10

\* `payload.custom_fields or {}`: the mapping, {} when it is None
OrEmpty(custom_fields) == custom_fields.map

\* the row as SalaryTemplate.filter(...).first() loads it; custom_fields is
\* the mapping that was stored
Loaded(row) ==
    [amounts |-> [f \in Range(TemplateFields) |-> FromCents(row.amounts[f])],
     note |-> row.note, custom_fields |-> row.custom_fields]

\* the instance as the request holds it after assigning the payload
Assigned(payload) ==
    [amounts |-> payload.amounts, note |-> payload.note,
     custom_fields |-> OrEmpty(payload.custom_fields)]

\* the row save() and create() write
TemplateRow(id, person_id, payload) ==
    [id |-> id, person_id |-> person_id,
     amounts |-> [f \in Range(TemplateFields) |-> Quantize(payload.amounts[f])],
     note |-> payload.note,
     custom_fields |-> OrEmpty(payload.custom_fields)]

_to_out(person_id, tmpl) ==
    [person_id |-> person_id, note |-> tmpl.note,
     custom_fields |-> tmpl.custom_fields]
    @@ [f \in Range(TemplateFields) |-> tmpl.amounts[f]]

\* SalaryTemplate.filter(person_id=person_id)
TemplatesOf(person_id) == {t \in templates : t.person_id = person_id}

\* .first(): the row of the lowest key
FirstTemplate(person_id) ==
    CHOOSE t \in TemplatesOf(person_id) :
        \A u \in TemplatesOf(person_id) : t.id <= u.id

\* a key no row has; no route shows the key of a template
FreshTemplateId ==
    CHOOSE id \in 1..(Cardinality(templates) + 1) :
        \A t \in templates : t.id # id

get_template(user_id, person_id) ==
    LET args == <<user_id, person_id>>
    IN  IF ~OwnsPerson(user_id, person_id)
        THEN Response("get_template", args, 404, <<>>)
        ELSE IF TemplatesOf(person_id) = {}
        THEN Response("get_template", args, 404, <<>>)
        ELSE Response("get_template", args, 200,
                      _to_out(person_id, Loaded(FirstTemplate(person_id))))

\* mutant of upsert_template: a row is created whether or not the person
\* has one
UpsertTemplateAlwaysCreates(user_id, person_id, payload) ==
    LET args == <<user_id, person_id, payload>>
        out  == Response("upsert_template", args, 200,
                         _to_out(person_id, Assigned(payload)))
        row  == TemplateRow(FreshTemplateId, person_id, payload)
    IN  IF ~OwnsPerson(user_id, person_id)
        THEN [templates |-> templates,
              replies |-> {Response("upsert_template", args, 404, <<>>)}]
        ELSE [templates |-> templates \cup {row},
              replies |-> {out,
                           Response("upsert_template", args, 200,
                                    _to_out(person_id, Loaded(row)))}]

\* the table after upsert_template and the replies it can give. The reply
\* is made of the instance in memory: of the payload as assigned when the
\* row existed, and of what SalaryTemplate.create() returns when it did not,
\* which holds the amounts as given or as stored.
upsert_template(user_id, person_id, payload) ==
    LET args == <<user_id, person_id, payload>>
        out  == Response("upsert_template", args, 200,
                         _to_out(person_id, Assigned(payload)))
        old  == FirstTemplate(person_id)
        row  == TemplateRow(IF TemplatesOf(person_id) # {} THEN old.id
                            ELSE FreshTemplateId,
                            person_id, payload)
    IN  IF ~OwnsPerson(user_id, person_id)
        THEN [templates |-> templates,
              replies |-> {Response("upsert_template", args, 404, <<>>)}]
        ELSE IF TemplatesOf(person_id) # {}
        THEN [templates |-> (templates \ {old}) \cup {row},
              replies |-> {out}]
        ELSE [templates |-> templates \cup {row},
              replies |-> {out,
                           Response("upsert_template", args, 200,
                                    _to_out(person_id, Loaded(row)))}]

delete_template(user_id, person_id) ==
    LET args == <<user_id, person_id>>
    IN  IF ~OwnsPerson(user_id, person_id)
        THEN [templates |-> templates,
              resp |-> Response("delete_template", args, 404, <<>>)]
        ELSE [templates |-> templates \ TemplatesOf(person_id),
              resp |-> Response("delete_template", args, 200, [ok |-> TRUE])]

(***************************************************************************)
(* Specification of the template routes                                    *)
(***************************************************************************)
TemplateAmounts(base, tax) ==
    [f \in Range(TemplateFields) |->
        IF f = "base_salary" THEN base ELSE IF f = "tax" THEN tax ELSE 0]

\* payloads in thousandths: 1000.00 with nothing else given, 1234.567 and
\* 1.004 with a note and a custom amount, and one of defaults with an empty
\* mapping; no amount lies halfway between two cents
TemplatePayloads ==
    { [amounts |-> TemplateAmounts(1000000, 0), note |-> None,
       custom_fields |-> NotGiven],
      [amounts |-> TemplateAmounts(1234567, 1004), note |-> <<"o", "k">>,
       custom_fields |-> Given([k \in {"bonus"} |-> 5000])],
      [amounts |-> TemplateAmounts(0, 0), note |-> None,
       custom_fields |-> Given([k \in {} |-> 0])] }

TemplatePersons == {1, 3}

TemplatesInit ==
    /\ records = {}
    /\ custom_values = {}
    /\ salary_fields = SalaryFieldRows
    /\ next_id = 1
    /\ templates = {}
    /\ resp = NoResponse
    /\ range_parts = <<>>
    /\ range_str = None
    /\ range_ret = Pending

GetTemplate ==
    \E user_id \in Users, person_id \in TemplatePersons :
        /\ resp' = get_template(user_id, person_id)
        /\ UNCHANGED range_vars
        /\ UNCHANGED db_vars

UpsertTemplate ==
    \E user_id \in Users, person_id \in TemplatePersons,
       payload \in TemplatePayloads :
        LET out == upsert_template(user_id, person_id, payload)
        IN  /\ templates' = out.templates
            /\ resp' \in out.replies
            /\ UNCHANGED <<records, custom_values, salary_fields, next_id>>
            /\ UNCHANGED range_vars

DeleteTemplate ==
    \E user_id \in Users, person_id \in TemplatePersons :
        LET out == delete_template(user_id, person_id)
        IN  /\ templates' = out.templates
            /\ resp' = out.resp
            /\ UNCHANGED <<records, custom_values, salary_fields, next_id>>
            /\ UNCHANGED range_vars

TemplatesNext ==
    \/ GetTemplate
    \/ UpsertTemplate
    \/ DeleteTemplate

SpecTemplates == TemplatesInit /\ [][TemplatesNext]_vars

(***************************************************************************)
(* Specification of the write routes, with the monthly statistics read     *)
(* back                                                                    *)
(***************************************************************************)
MaxCreated == 2
MaxRows == 2

DbMonths == {1, 2}

CreateCustomPayloads ==
    { NotGiven,
      Given([k \in {"bonus", "fine"} |-> IF k = "bonus" THEN 5 ELSE 3]),
      Given([k \in {"perk"} |-> 11]) }

\* SalaryCreate: the nine amounts create_salary passes on, the other columns
\* of the new record keeping their default 0
CreatePayloads ==
    {[year |-> 2024, month |-> m,
      amounts |-> [f \in Range(AmountFields) |->
                      IF f \in Range(CoreFields)
                      THEN CoreAmounts(1000, 10, 3, 5, 7)[f] ELSE 0],
      custom_fields |-> cf] : m \in DbMonths, cf \in CreateCustomPayloads}

NoChanges == [k \in {} |-> 0]

\* SalaryUpdate with exclude_unset: the fields the request sets, and
\* custom_fields absent, {} or a mapping
UpdatePayloads ==
    {[changes |-> ch, custom_fields |-> NotGiven] :
        ch \in {[k \in {"base_salary"} |-> 1500], [k \in {"month"} |-> 2]}}
    \cup {[changes |-> NoChanges, custom_fields |-> Given(map)] :
            map \in {[k \in {} |-> 0],
                     [k \in {"bonus"} |-> 0],
                     [k \in {"bonus"} |-> 6]}}

ImportAmounts(base) ==
    [f \in Range(CoreFields) |-> IF f = "base_salary" THEN base ELSE 0]

\* rows of an uploaded file; person_id 0 is an empty person_id cell, custom
\* the custom columns of the file with the row's cells
ImportRowPool ==
    { [person_id |-> 1, year |-> 2024, month |-> 1,
       amounts |-> ImportAmounts(3000), custom |-> [k \in {} |-> 0]],
      [person_id |-> 3, year |-> 2024, month |-> 1,
       amounts |-> ImportAmounts(3000), custom |-> [k \in {} |-> 0]],
      [person_id |-> 0, year |-> 2024, month |-> 2,
       amounts |-> ImportAmounts(3000),
       custom |-> [k \in {"bonus", "perk"} |-> IF k = "bonus" THEN 6 ELSE 11]] }

\* the rows of one file have the same columns
ImportFiles ==
    {rows \in UNION {[1..n -> ImportRowPool] : n \in 1..MaxRows} :
        \A i, j \in DOMAIN rows : DOMAIN rows[i].custom = DOMAIN rows[j].custom}

\* the users that upload files
Importers == {1}

\* the definitions the model switches off
Deactivatable == {1}

DbInit ==
    /\ records = {}
    /\ custom_values = {}
    /\ salary_fields = SalaryFieldRows
    /\ next_id = 1
    /\ templates = {}
    /\ resp = NoResponse
    /\ range_parts = <<>>
    /\ range_str = None
    /\ range_ret = Pending

Apply(out) ==
    /\ records' = out.records
    /\ custom_values' = out.custom_values
    /\ next_id' = out.next_id
    /\ resp' = out.resp

CreateSalary ==
    \E user_id \in Users, person_id \in {1, 3}, payload \in CreatePayloads :
        \E out \in {create_salary(user_id, person_id, payload)} :
            /\ out.next_id <= MaxCreated + 1
            /\ Apply(out)
            /\ UNCHANGED <<salary_fields, templates>>
            /\ UNCHANGED range_vars

UpdateSalary ==
    \E user_id \in Users, record_id \in 1..MaxCreated,
       payload \in UpdatePayloads :
        /\ Apply(update_salary(user_id, record_id, payload))
        /\ UNCHANGED <<salary_fields, templates>>
        /\ UNCHANGED range_vars

DeleteSalary ==
    \E user_id \in Users, record_id \in 1..MaxCreated :
        /\ Apply(delete_salary(user_id, record_id))
        /\ UNCHANGED <<salary_fields, templates>>
        /\ UNCHANGED range_vars

ImportSalaries ==
    \E user_id \in Importers, person_id \in {0, 1},
       mode \in {"upsert", "skip", "error"}, rows \in ImportFiles :
        \E out \in {import_salaries(user_id, person_id, mode, rows)} :
            /\ out.next_id <= MaxCreated + 1
            /\ Apply(out)
            /\ UNCHANGED <<salary_fields, templates>>
            /\ UNCHANGED range_vars

\* a definition of the user is switched off
DeactivateField ==
    \E fid \in Deactivatable :
        /\ salary_fields[fid].is_active
        /\ salary_fields' = [salary_fields EXCEPT ![fid].is_active = FALSE]
        /\ resp' = Response("deactivate_field", <<fid>>, 200, <<>>)
        /\ UNCHANGED <<records, custom_values, next_id, templates>>
        /\ UNCHANGED range_vars

ReadMonthlyStats ==
    \E user_id \in Users :
        /\ resp' = monthly_stats(user_id, 0, 0, 0)
        /\ UNCHANGED range_vars
        /\ UNCHANGED db_vars

DbNext ==
    \/ CreateSalary
    \/ UpdateSalary
    \/ DeleteSalary
    \/ ImportSalaries
    \/ DeactivateField
    \/ ReadMonthlyStats

Spec == DbInit /\ [][DbNext]_vars

(***************************************************************************)
(* Specification of the parser alone: every range string, one call         *)
(***************************************************************************)
RangeInit ==
    /\ range_parts \in PieceSeqs
    /\ range_str \in IF range_parts = <<>> THEN {None, <<>>}
                     ELSE {Render(range_parts)}
    /\ range_ret = Pending
    /\ records = {}
    /\ custom_values = {}
    /\ salary_fields = SalaryFieldRows
    /\ next_id = 1
    /\ templates = {}
    /\ resp = NoResponse

CallParseRange ==
    /\ range_ret = Pending
    /\ range_ret' = _parse_range(range_str)
    /\ UNCHANGED <<range_parts, range_str, resp>>
    /\ UNCHANGED db_vars

RangeNext == CallParseRange

SpecRange == RangeInit /\ [][RangeNext]_vars

(***************************************************************************)
(* Specification of the statistics routes over stored data                 *)
(***************************************************************************)
MaxRecords == 2

IndexOf(f) == CHOOSE i \in DOMAIN AmountFields : AmountFields[i] = f

\* every amount column a distinct power of two: a sum tells which columns
\* went into it
FullAmounts == [f \in Range(AmountFields) |-> 2 ^ (IndexOf(f) - 1)]
ZeroAmounts == [f \in Range(AmountFields) |-> 0]

NoCustom == [k \in {} |-> 0]
FullCustom == (1 :> 2 ^ 22) @@ (2 :> 2 ^ 23) @@ (3 :> 2 ^ 24)

Samples ==
    { [amounts |-> FullAmounts, custom |-> FullCustom],
      [amounts |-> [FullAmounts EXCEPT !["meal_allowance"] = 0],
       custom |-> FullCustom],
      [amounts |-> CoreAmounts(1000, 10, 3, 5, 7), custom |-> NoCustom],
      [amounts |-> CoreAmounts(2000, 20, 4, 6, 8), custom |-> (3 :> 9)],
      [amounts |-> ZeroAmounts, custom |-> NoCustom] }

StatKeys ==
    {<<1, 2023, 12>>, <<1, 2024, 1>>, <<1, 2024, 2>>, <<2, 2024, 1>>,
     <<3, 2024, 1>>}

\* custom values are written against the definitions of the person's user
CustomFor(sample, person_id) ==
    IF persons[person_id].user_id = 1 THEN sample.custom
    ELSE IF sample.custom = NoCustom THEN NoCustom ELSE (4 :> 11)

StoredData(n, keys, samples) ==
    /\ records = {SalaryRecordRow(i, keys[i][1], keys[i][2], keys[i][3],
                                  samples[i].amounts) : i \in 1..n}
    /\ custom_values =
        UNION {{CustomValueRow(i, fid, CustomFor(samples[i], keys[i][1])[fid]) :
                    fid \in DOMAIN CustomFor(samples[i], keys[i][1])} : i \in 1..n}
    /\ next_id = n + 1

QueryRanges ==
    { <<>>,
      <<YearToken(2024)>>,
      <<MonthToken(2024, 1)>>,
      <<MonthToken(2024, 2)>>,
      <<MonthToken(2023, 12), SepPiece(1), MonthToken(2024, 1)>>,
      <<MonthToken(2024, 1), SepPiece(3), YearToken(2024)>>,
      <<JunkPiece(<<"²", "²", "²", "²">>)>> }

StatsInit ==
    /\ \E n \in 0..MaxRecords :
        \E keys \in [1..n -> StatKeys], samples \in [1..n -> Samples] :
            /\ \A i, j \in 1..n : i # j => keys[i] # keys[j]
            /\ StoredData(n, keys, samples)
    /\ salary_fields \in {SalaryFieldRows,
                          [SalaryFieldRows EXCEPT ![1].is_active = FALSE]}
    /\ range_parts = <<>>
    /\ range_str = None
    /\ range_ret = Pending
    /\ templates = {}
    /\ resp = NoResponse

\* (person_id, year, month) of a request; 0 stands for an absent parameter
RecordFilters == {<<0, 0, 0>>, <<1, 0, 0>>, <<0, 2024, 0>>, <<0, 2024, 1>>}

\* one request is made of the stored data; the routes below change none of it
MonthlyStats ==
    \E user_id \in Users, q \in RecordFilters :
        /\ resp = NoResponse
        /\ resp' = monthly_stats(user_id, q[1], q[2], q[3])
        /\ UNCHANGED range_vars
        /\ UNCHANGED db_vars

ContributionsCumulative ==
    \E user_id \in Users, person_id \in {1, 3}, parts \in QueryRanges :
        /\ resp = NoResponse
        /\ range_parts' = parts
        /\ range_str' \in IF parts = <<>> THEN {None, <<>>} ELSE {Render(parts)}
        /\ resp' = contributions_cumulative(user_id, person_id, range_str')
        /\ UNCHANGED range_ret
        /\ UNCHANGED db_vars

\* _apply_range on the stored records in primary-key order
ApplyRange ==
    \E parts \in QueryRanges :
        /\ resp = NoResponse
        /\ range_parts' = parts
        /\ range_str' \in IF parts = <<>> THEN {None, <<>>} ELSE {Render(parts)}
        /\ \E ret \in {_apply_range(AllRows(records), range_str')} :
                resp' = Response("_apply_range", <<AllRows(records)>>,
                                 IF ret.exc = "none" THEN 200 ELSE 500,
                                 IF ret.exc = "none" THEN ret.val ELSE <<>>)
        /\ UNCHANGED range_ret
        /\ UNCHANGED db_vars

StatYears == {2023, 2024}

YearlyStats ==
    \E user_id \in Users, person_id \in {0, 1, 3}, year \in StatYears :
        /\ resp = NoResponse
        /\ resp' = yearly_stats(user_id, person_id, year)
        /\ UNCHANGED range_vars
        /\ UNCHANGED db_vars

FamilySummary ==
    \E user_id \in Users, year \in StatYears :
        /\ resp = NoResponse
        /\ resp' = family_summary(user_id, year)
        /\ UNCHANGED range_vars
        /\ UNCHANGED db_vars

CumulativeInsurance ==
    \E user_id \in Users :
        /\ resp = NoResponse
        /\ resp' = cumulative_insurance(user_id)
        /\ UNCHANGED range_vars
        /\ UNCHANGED db_vars

\* one record is read back
GetSalary ==
    \E user_id \in Users, record_id \in 1..MaxRecords :
        /\ resp = NoResponse
        /\ resp' = get_salary(user_id, record_id)
        /\ UNCHANGED range_vars
        /\ UNCHANGED db_vars

StatsNext ==
    \/ GetSalary
    \/ MonthlyStats
    \/ ContributionsCumulative
    \/ ApplyRange
    \/ YearlyStats
    \/ FamilySummary
    \/ CumulativeInsurance

SpecStats == StatsInit /\ [][StatsNext]_vars

(***************************************************************************)
(* Specification of the yearly views over the months of one year           *)
(***************************************************************************)
MaxMonths == 3

\* rows of net 100, 200, 300 and -50
YearlyAmounts ==
    { CoreAmounts(100, 0, 0, 0, 0), CoreAmounts(250, 20, 10, 10, 10),
      CoreAmounts(300, 0, 0, 0, 0), CoreAmounts(0, 0, 0, 0, 50) }

\* the first n months of 2024, each a record of person 1 or of person 2
YearlyInit ==
    /\ \E n \in 0..MaxMonths :
        \E who \in [1..n -> {1, 2}], amounts \in [1..n -> YearlyAmounts] :
            StoredData(n, [i \in 1..n |-> <<who[i], 2024, i>>],
                       [i \in 1..n |-> [amounts |-> amounts[i],
                                        custom |-> NoCustom]])
    /\ salary_fields = SalaryFieldRows
    /\ range_parts = <<>>
    /\ range_str = None
    /\ range_ret = Pending
    /\ templates = {}
    /\ resp = NoResponse

YearlyNext ==
    \/ YearlyStats
    \/ FamilySummary

SpecYearly == YearlyInit /\ [][YearlyNext]_vars

(***************************************************************************)
(* Specification of the two breakdown routes                               *)
(***************************************************************************)
MaxShareRecords == 2

\* amounts whose shares do not end in binary (2, 3, 1 and 1, 4, 1), amounts
\* below zero, a total of zero, a total below zero and deductions that
\* cancel out
ShareSamples ==
    { [amounts |-> FullAmounts, custom |-> FullCustom],
      [amounts |-> [ZeroAmounts EXCEPT !["base_salary"] = 2,
                                       !["performance_salary"] = 3,
                                       !["meal_allowance"] = 1,
                                       !["pension_insurance"] = 1,
                                       !["medical_insurance"] = 4,
                                       !["housing_fund"] = 1],
       custom |-> NoCustom],
      [amounts |-> [ZeroAmounts EXCEPT !["base_salary"] = 300,
                                       !["other_income"] = -100,
                                       !["other_deductions"] = 5],
       custom |-> (3 :> 9)],
      [amounts |-> ZeroAmounts, custom |-> NoCustom],
      [amounts |-> [ZeroAmounts EXCEPT !["base_salary"] = 100,
                                       !["other_income"] = -100],
       custom |-> NoCustom],
      [amounts |-> [ZeroAmounts EXCEPT !["base_salary"] = 100,
                                       !["other_income"] = -200,
                                       !["pension_insurance"] = 5,
                                       !["other_deductions"] = -5],
       custom |-> NoCustom] }

\* records of the two persons of user 1; user 2 has none
ShareKeys == {<<1, 2024, 1>>, <<1, 2024, 2>>, <<2, 2024, 1>>}

ShareRanges ==
    { <<>>,
      <<MonthToken(2024, 1)>>,
      <<JunkPiece(<<"²", "²", "²", "²">>)>> }

ShareFilters == {<<0, 0, 0>>, <<1, 0, 0>>}

SharesInit ==
    /\ \E n \in 0..MaxShareRecords :
        \E keys \in [1..n -> ShareKeys], samples \in [1..n -> ShareSamples] :
            /\ \A i, j \in 1..n : i # j => keys[i] # keys[j]
            /\ StoredData(n, keys, samples)
    /\ salary_fields = SalaryFieldRows
    /\ range_parts = <<>>
    /\ range_str = None
    /\ range_ret = Pending
    /\ templates = {}
    /\ resp = NoResponse

IncomeComposition ==
    \E user_id \in Users, q \in ShareFilters, parts \in ShareRanges :
        /\ resp = NoResponse
        /\ range_parts' = parts
        /\ range_str' \in IF parts = <<>> THEN {None, <<>>} ELSE {Render(parts)}
        /\ resp' = income_composition(user_id, q[1], q[2], q[3], range_str')
        /\ UNCHANGED range_ret
        /\ UNCHANGED db_vars

DeductionsBreakdown ==
    \E user_id \in Users, q \in ShareFilters, parts \in ShareRanges :
        /\ resp = NoResponse
        /\ range_parts' = parts
        /\ range_str' \in IF parts = <<>> THEN {None, <<>>} ELSE {Render(parts)}
        /\ resp' = deductions_breakdown(user_id, q[1], q[2], q[3], range_str')
        /\ UNCHANGED range_ret
        /\ UNCHANGED db_vars

SharesNext ==
    \/ IncomeComposition
    \/ DeductionsBreakdown

SpecShares == SharesInit /\ [][SharesNext]_vars

(***************************************************************************)
(* Specification of the views of the same records: the record read back    *)
(* and the five statistics                                                 *)
(***************************************************************************)
MaxViewRecords == 2

\* a record of nothing but zeros, one with every column and every kind of
\* custom value, and one whose custom values are all deductions
ViewSamples ==
    { [amounts |-> ZeroAmounts, custom |-> NoCustom],
      [amounts |-> FullAmounts, custom |-> FullCustom],
      [amounts |-> CoreAmounts(1000, 10, 3, 5, 7), custom |-> (3 :> 9)] }

ViewKeys == {<<1, 2024, 1>>, <<1, 2024, 2>>, <<2, 2024, 1>>, <<1, 2023, 12>>}

ViewsInit ==
    /\ \E n \in 0..MaxViewRecords :
        \E keys \in [1..n -> ViewKeys], samples \in [1..n -> ViewSamples] :
            /\ \A i, j \in 1..n : i # j => keys[i] # keys[j]
            /\ StoredData(n, keys, samples)
    /\ salary_fields = SalaryFieldRows
    /\ range_parts = <<>>
    /\ range_str = None
    /\ range_ret = Pending
    /\ templates = {}
    /\ resp = NoResponse

\* the routes of stats.py
AggregatorOps ==
    {"monthly_stats", "yearly_stats", "family_summary", "cumulative_insurance",
     "income_composition", "deductions_breakdown", "contributions_cumulative"}

\* the route op called with the arguments args
Rerun(op, args) ==
    CASE op = "monthly_stats" ->
            monthly_stats(args[1], args[2], args[3], args[4])
      [] op = "yearly_stats" -> yearly_stats(args[1], args[2], args[3])
      [] op = "family_summary" -> family_summary(args[1], args[2])
      [] op = "cumulative_insurance" -> cumulative_insurance(args[1])
      [] op = "income_composition" ->
            income_composition(args[1], args[2], args[3], args[4], args[5])
      [] op = "deductions_breakdown" ->
            deductions_breakdown(args[1], args[2], args[3], args[4], args[5])
      [] op = "contributions_cumulative" ->
            contributions_cumulative(args[1], args[2], args[3])

\* the request that was answered is made once more
RunAgain ==
    /\ resp.op \in AggregatorOps
    /\ resp' = Rerun(resp.op, resp.args)
    /\ UNCHANGED range_vars
    /\ UNCHANGED db_vars

ViewsNext ==
    \/ GetSalary
    \/ MonthlyStats
    \/ YearlyStats
    \/ FamilySummary
    \/ CumulativeInsurance
    \/ IncomeComposition
    \/ DeductionsBreakdown
    \/ ContributionsCumulative
    \/ RunAgain

SpecViews == ViewsInit /\ [][ViewsNext]_vars

(***************************************************************************)
(* Specification of one request of either user over the stored rows of     *)
(* both                                                                    *)
(***************************************************************************)
MaxAccessRecords == 2

AccessSamples ==
    { [amounts |-> CoreAmounts(1000, 10, 3, 5, 7), custom |-> (3 :> 9)],
      [amounts |-> FullAmounts, custom |-> FullCustom] }

\* a month of a person of user 1, the same month of another and of the
\* person of user 2
AccessKeys == {<<1, 2024, 1>>, <<2, 2024, 1>>, <<3, 2024, 1>>}

\* the stored templates: none, or one of person 1 and one of person 3
AccessTemplates ==
    { {},
      { [id |-> 1, person_id |-> 1,
         amounts |-> [f \in Range(TemplateFields) |->
                        IF f = "base_salary" THEN 100000 ELSE 0],
         note |-> None, custom_fields |-> [k \in {} |-> 0]],
        [id |-> 2, person_id |-> 3,
         amounts |-> [f \in Range(TemplateFields) |->
                        IF f = "base_salary" THEN 200000 ELSE 0],
         note |-> None, custom_fields |-> [k \in {} |-> 0]] } }

AccessInit ==
    /\ \E n \in 0..MaxAccessRecords :
        \E keys \in [1..n -> AccessKeys], samples \in [1..n -> AccessSamples] :
            /\ \A i, j \in 1..n : i # j => keys[i] # keys[j]
            /\ StoredData(n, keys, samples)
    /\ salary_fields = SalaryFieldRows
    /\ templates \in AccessTemplates
    /\ range_parts = <<>>
    /\ range_str = None
    /\ range_ret = Pending
    /\ resp = NoResponse

Payslip ==
    \E route \in {"payslip_svg", "payslip_html"}, user_id \in Users,
       record_id \in 1..MaxAccessRecords :
        /\ resp = NoResponse
        /\ resp' = payslip(route, user_id, record_id)
        /\ UNCHANGED range_vars
        /\ UNCHANGED db_vars

\* one request is made
FirstCreateSalary == resp = NoResponse /\ CreateSalary
FirstUpdateSalary == resp = NoResponse /\ UpdateSalary
FirstDeleteSalary == resp = NoResponse /\ DeleteSalary
FirstImportSalaries == resp = NoResponse /\ ImportSalaries
FirstGetTemplate == resp = NoResponse /\ GetTemplate
FirstUpsertTemplate == resp = NoResponse /\ UpsertTemplate
FirstDeleteTemplate == resp = NoResponse /\ DeleteTemplate

AccessNext ==
    \/ GetSalary
    \/ Payslip
    \/ FirstCreateSalary
    \/ FirstUpdateSalary
    \/ FirstDeleteSalary
    \/ FirstImportSalaries
    \/ FirstGetTemplate
    \/ FirstUpsertTemplate
    \/ FirstDeleteTemplate
    \/ MonthlyStats
    \/ YearlyStats
    \/ FamilySummary
    \/ IncomeComposition
    \/ DeductionsBreakdown
    \/ ContributionsCumulative

SpecAccess == AccessInit /\ [][AccessNext]_vars

(***************************************************************************)
(* Date-range parser: properties                                           *)
(***************************************************************************)
Called == range_ret # Pending
IsToken(p) == p.kind \in {"year", "month"}
StartBound(p) == IF p.kind = "year" THEN p.y * 100 + 1 ELSE p.y * 100 + p.m
EndBound(p) == IF p.kind = "year" THEN p.y * 100 + 12 ELSE p.y * 100 + p.m

\* C1: _parse_range of a string of exactly four digits, with no separator,
\* returns the whole year: (year*100+1, year*100+12).
C1_WholeYear ==
    (Called /\ Len(range_parts) = 1 /\ range_parts[1].kind = "year")
        => range_ret = Returned(<<range_parts[1].y * 100 + 1,
                                  range_parts[1].y * 100 + 12>>)

\* C7 as stated: _parse_range("bogus") returns (0, 1).
C7_BogusReturnsZeroOne ==
    (Called /\ range_str = Bogus) => range_ret = Returned(<<0, 1>>)

\* C7 as amended: a single unparseable token with no separator returns
\* (1, 1), the bound of the start fallback (year 0, month 1) on both sides,
\* and raises nothing.
UnparseableTexts == {Bogus, <<"2", "0">>, <<"-">>}
C7_BogusReturnsOneOne ==
    (Called /\ Len(range_parts) = 1 /\ range_parts[1].kind = "junk"
            /\ range_parts[1].text \in UnparseableTexts)
        => range_ret = Returned(<<1, 1>>)

C7_Witness == range_str = Bogus /\ range_ret = Returned(<<1, 1>>)

\* C8: _parse_range fails for no input string; an empty or absent string
\* gives (0, 999999); in a two-token range an unparseable or empty start
\* token gives the bound 1 and an unparseable or empty end token 999912.
IsUnparseable(p) == p.kind = "junk"
C8_NeverFails ==
    Called =>
        /\ range_ret.exc = "none"
        /\ (range_str \in {None, <<>>}) => range_ret.val = <<0, 999999>>
        /\ (Len(range_parts) \in {2, 3} /\ range_parts[1].kind = "sep"
                /\ \A i \in 2..Len(range_parts) : range_parts[i].kind # "sep")
            => range_ret.val[1] = 1
        /\ (Len(range_parts) \in {2, 3}
                /\ range_parts[Len(range_parts)].kind = "sep"
                /\ \A i \in 1..(Len(range_parts) - 1) : range_parts[i].kind # "sep")
            => range_ret.val[2] = 999912
        /\ (Len(range_parts) = 3 /\ range_parts[2].kind = "sep"
                /\ IsUnparseable(range_parts[1]) /\ range_parts[3].kind # "sep")
            => range_ret.val[1] = 1
        /\ (Len(range_parts) = 3 /\ range_parts[2].kind = "sep"
                /\ IsUnparseable(range_parts[3]) /\ range_parts[1].kind # "sep")
            => range_ret.val[2] = 999912

\* C9: two tokens joined by '..', ':', ',' or '_' give (bound of the first,
\* bound of the second) whichever separator joins them; a four-digit year is
\* month 1 on the start side and month 12 on the end side.
C9_TwoTokens ==
    (Called /\ Len(range_parts) = 3 /\ IsToken(range_parts[1])
            /\ range_parts[2].kind = "sep" /\ IsToken(range_parts[3]))
        => range_ret = Returned(<<StartBound(range_parts[1]),
                                  EndBound(range_parts[3])>>)

C9_Witness ==
    /\ range_parts = <<MonthToken(2024, 1), SepPiece(4), MonthToken(2024, 6)>>
    /\ range_ret = Returned(<<202401, 202406>>)

\* C10: a single 'YYYY-MM' token with no separator gives that month as both
\* bounds.
C10_SingleMonth ==
    (Called /\ Len(range_parts) = 1 /\ range_parts[1].kind = "month")
        => range_ret = Returned(<<range_parts[1].y * 100 + range_parts[1].m,
                                  range_parts[1].y * 100 + range_parts[1].m>>)

C10_Witness ==
    /\ range_str = <<"2", "0", "2", "4", "-", "0", "3">>
    /\ range_ret = Returned(<<202403, 202403>>)

(***************************************************************************)
(* Statistics: properties                                                  *)
(***************************************************************************)
RECURSIVE SumField(_, _)
SumField(S, f) ==
    IF S = {} THEN 0
    ELSE LET x == CHOOSE x \in S : TRUE IN x[f] + SumField(S \ {x}, f)

\* the stored record a result row (person_id, year, month) stands for
RecordOfRow(row) ==
    CHOOSE r \in records :
        r.person_id = row.person_id /\ r.year = row.year /\ r.month = row.month

Amount(r, f) == IF f \in DOMAIN r THEN r[f] ELSE 0

\* the stored custom values of record r whose definition has the given type
\* and non-cash flag
CustomValuesOf(r, field_type, is_non_cash) ==
    {v \in custom_values :
        /\ v.salary_record_id = r.id
        /\ salary_fields[v.salary_field_id].field_type = field_type
        /\ salary_fields[v.salary_field_id].is_non_cash = is_non_cash}

CustomDeductionsOf(r) ==
    {v \in custom_values :
        /\ v.salary_record_id = r.id
        /\ salary_fields[v.salary_field_id].field_type = "deduction"}

CustomMapOf(r) ==
    {<<v.salary_field_id, v.amount>> :
        v \in {w \in custom_values : w.salary_record_id = r.id}}

DifferOnlyInMealAllowance(a, b) ==
    /\ DOMAIN a = DOMAIN b
    /\ "meal_allowance" \in DOMAIN a
    /\ a.meal_allowance # b.meal_allowance
    /\ \A f \in Range(AmountFields) \ {"meal_allowance"} :
            f \in DOMAIN a => a[f] = b[f]
    /\ CustomMapOf(a) = CustomMapOf(b)

\* C2: meal allowance is in gross_income and not in take-home: two records
\* that differ only in meal_allowance have monthly rows whose gross_income
\* differs by that amount and whose actual_take_home and net_income are equal.
C2_MealAllowanceNotInTakeHome ==
    resp.op = "monthly_stats" =>
        \A i, j \in DOMAIN resp.body :
            LET a == RecordOfRow(resp.body[i])
                b == RecordOfRow(resp.body[j])
            IN  DifferOnlyInMealAllowance(a, b) =>
                    /\ resp.body[i].gross_income - resp.body[j].gross_income
                            = a.meal_allowance - b.meal_allowance
                    /\ resp.body[i].actual_take_home
                            = resp.body[j].actual_take_home
                    /\ resp.body[i].net_income = resp.body[j].net_income

ExpectedCashIncome(r) ==
    Amount(r, "base_salary") + Amount(r, "performance_salary")
    + Amount(r, "high_temp_allowance") + Amount(r, "low_temp_allowance")
    + Amount(r, "meal_allowance") + Amount(r, "computer_allowance")
    + Amount(r, "communication_allowance")
    + Amount(r, "comprehensive_allowance")
    + Amount(r, "other_income")
    + SumField(CustomValuesOf(r, "income", FALSE), "amount")

ExpectedDeductionsTotal(r) ==
    Amount(r, "pension_insurance") + Amount(r, "medical_insurance")
    + Amount(r, "unemployment_insurance")
    + Amount(r, "critical_illness_insurance")
    + Amount(r, "enterprise_annuity") + Amount(r, "housing_fund")
    + Amount(r, "other_deductions") + Amount(r, "labor_union_fee")
    + Amount(r, "performance_deduction")
    + SumField(CustomDeductionsOf(r), "amount")

ExpectedStart(parts) == IF parts = <<>> THEN 0 ELSE StartBound(parts[1])
ExpectedEnd(parts) ==
    IF parts = <<>> THEN 999999 ELSE EndBound(parts[Len(parts)])
IsCumulativeReply ==
    resp.op = "contributions_cumulative" /\ resp.status = 200
RecordsOfPerson(person_id) == {r \in records : r.person_id = person_id}
YmOf(r) == r.year * 100 + r.month

\* history + pension 10 + pension 20 of person 1, the range being the month
\* of the second record
CumulativeExample ==
    /\ IsCumulativeReply
    /\ resp.args[2] = 1
    /\ persons[1].pension_history = 100
    /\ \E a, b \in RecordsOfPerson(1) :
        /\ RecordsOfPerson(1) = {a, b}
        /\ a.pension_insurance = 10 /\ b.pension_insurance = 20
        /\ YmOf(a) < YmOf(b)
        /\ range_parts = <<MonthToken(b.year, b.month)>>

PensionSeries == [i \in DOMAIN resp.body.points |->
                    resp.body.points[i].pension_cumulative]

\* C5 as stated: in the example the reported series is 110, then 130.
C5_ExampleSeriesStartsAt110 ==
    CumulativeExample => PensionSeries = <<110, 130>>

\* C5 as amended: the starting value is history plus the contributions of the
\* records before the range start; the points are the in-range records in
\* ascending year*100+month, each the starting value plus the in-range
\* contributions up to and including it; in the example the starting value
\* is 110 and the series reported is the one point 130.
C5_CumulativeSeries ==
    IsCumulativeReply =>
        LET mine   == RecordsOfPerson(resp.args[2])
            points == resp.body.points
            start  == ExpectedStart(range_parts)
            SeriesValue(p, f, history) ==
                (history + SumField({r \in mine : YmOf(r) < start}, f))
                + SumField({r \in mine : start <= YmOf(r) /\ YmOf(r) <= YmOf(p)}, f)
        IN  /\ \A i \in DOMAIN points :
                /\ \E r \in mine : YmOf(r) = YmOf(points[i])
                /\ YmOf(points[i]) >= start
                /\ points[i].pension_cumulative =
                     SeriesValue(points[i], "pension_insurance",
                                 persons[resp.args[2]].pension_history)
                /\ points[i].medical_cumulative =
                     SeriesValue(points[i], "medical_insurance",
                                 persons[resp.args[2]].medical_history)
                /\ points[i].housing_fund_cumulative =
                     SeriesValue(points[i], "housing_fund",
                                 persons[resp.args[2]].housing_fund_history)
            /\ \A i, j \in DOMAIN points : i < j => YmOf(points[i]) < YmOf(points[j])
            \* a lone year token is left to C1: its end bound is the bug there
            /\ ~(Len(range_parts) = 1 /\ range_parts[1].kind = "year") =>
                {YmOf(points[i]) : i \in DOMAIN points}
                    = {YmOf(r) : r \in {x \in mine :
                            start <= YmOf(x) /\ YmOf(x) <= ExpectedEnd(range_parts)}}
            /\ CumulativeExample => PensionSeries = <<130>>

C5_Witness == CumulativeExample /\ PensionSeries = <<130>>

\* C11: _apply_range returns, in their order, exactly the records whose
\* year*100+month lies between the start and end bounds the range string
\* stands for, both included, and returns every record when the range string
\* is empty or absent.
C11_ApplyRangeKeepsInRange ==
    resp.op = "_apply_range" =>
        /\ resp.status = 200
        /\ resp.body =
             SelectSeq(resp.args[1],
                LAMBDA r : /\ ExpectedStart(range_parts) <= YmOf(r)
                           /\ YmOf(r) <= ExpectedEnd(range_parts))

ExpectedNonCash(r) ==
    Amount(r, "mid_autumn_benefit") + Amount(r, "dragon_boat_benefit")
    + Amount(r, "spring_festival_benefit")
    + SumField(CustomValuesOf(r, "income", TRUE), "amount")

ExpectedTakeHome(r) ==
    ExpectedCashIncome(r) - ExpectedDeductionsTotal(r) - Amount(r, "tax")

\* the figures of each record of S, one entry per record
Figures(S) ==
    {[id |-> r.id, gross |-> ExpectedCashIncome(r),
      take_home |-> ExpectedTakeHome(r), non_cash |-> ExpectedNonCash(r)] :
        r \in S}

RecordsOfYear(person_ids, year) ==
    {r \in records : r.person_id \in person_ids /\ r.year = year}

IsYearlyReply == resp.op = "yearly_stats" /\ resp.status = 200

\* the monthly view of one person and year, for the user of the reply
MonthlyRowsOf(person_id, year) ==
    monthly_stats(resp.args[1], person_id, year, 0).body

SumOfRows(rows, f) == SumSeq([i \in DOMAIN rows |-> rows[i][f]])

\* C13: each yearly row's total_gross, total_net, insurance_total, tax_total,
\* allowances_total, total_actual_take_home and total_non_cash_benefits are
\* the sums, over the monthly rows of that person and year, of gross_income,
\* net_income, insurance_total, tax, allowances_total, actual_take_home and
\* non_cash_benefits; there is one yearly row for each person asked for who
\* has monthly rows in the year.
C13_YearlyIsSumOfMonthly ==
    IsYearlyReply =>
        /\ \A i \in DOMAIN resp.body :
            LET row  == resp.body[i]
                rows == MonthlyRowsOf(row.person_id, row.year)
            IN  /\ row.year = resp.args[3]
                /\ row.total_gross = SumOfRows(rows, "gross_income")
                /\ row.total_net = SumOfRows(rows, "net_income")
                /\ row.insurance_total = SumOfRows(rows, "insurance_total")
                /\ row.tax_total = SumOfRows(rows, "tax")
                /\ row.allowances_total = SumOfRows(rows, "allowances_total")
                /\ row.total_actual_take_home
                        = SumOfRows(rows, "actual_take_home")
                /\ row.total_non_cash_benefits
                        = SumOfRows(rows, "non_cash_benefits")
        /\ \A i, j \in DOMAIN resp.body :
            resp.body[i].person_id = resp.body[j].person_id => i = j
        /\ {resp.body[i].person_id : i \in DOMAIN resp.body}
            = {p \in PersonsOf(resp.args[1]) :
                /\ resp.args[2] # 0 => p = resp.args[2]
                /\ MonthlyRowsOf(p, resp.args[3]) # <<>>}

\* a yearly row over two monthly rows of different, non-zero figures
C13_Witness ==
    /\ IsYearlyReply
    /\ \E i \in DOMAIN resp.body :
        LET rows == MonthlyRowsOf(resp.body[i].person_id, resp.body[i].year)
        IN  /\ Len(rows) = 2
            /\ rows[1].net_income > 0 /\ rows[2].net_income > 0
            /\ rows[1].net_income # rows[2].net_income
            /\ rows[1].gross_income # rows[1].net_income
            /\ resp.body[i].total_net
                    = rows[1].net_income + rows[2].net_income

\* the Decimal d is the integer n
DecimalIs(d, n) ==
    /\ d.neg = (n < 0)
    /\ d.coef = BigShift(BigOf(Abs(n)), d.frac)

\* the Decimal d is a / b for integers a and b > 0: exactly, or, when it
\* fills all DecimalPrec digits, to within half a unit of its last digit
IsQuotient(d, a, b) ==
    /\ d.neg = (a < 0)
    /\ Len(d.coef) <= DecimalPrec
    /\ \/ BigTimes(d.coef, b) = BigShift(BigOf(Abs(a)), d.frac)
       \/ /\ Len(d.coef) = DecimalPrec
          /\ BigCmp(BigTimes(d.coef, 2 * b),
                    BigAdd(BigShift(BigOf(2 * Abs(a)), d.frac), BigOf(b))) <= 0
          /\ BigCmp(BigShift(BigOf(2 * Abs(a)), d.frac),
                    BigAdd(BigTimes(d.coef, 2 * b), BigOf(b))) <= 0

\* three records of one person and year, of net 100, 200 and 300
ThreeMonthsExample(person_id, year) ==
    /\ Cardinality(RecordsOfYear({person_id}, year)) = 3
    /\ {ExpectedTakeHome(r) : r \in RecordsOfYear({person_id}, year)}
            = {100, 200, 300}

\* C14: in a yearly row months is the number of the person's records in the
\* year and avg_net is total_net / months (0 when months is 0); for three
\* records of net 100, 200 and 300, avg_net is 200 and months is 3.
C14_YearlyAverage ==
    IsYearlyReply =>
        \A i \in DOMAIN resp.body :
            LET row == resp.body[i]
            IN  /\ row.months
                    = Cardinality(RecordsOfYear({row.person_id}, row.year))
                /\ row.months # 0 =>
                    IsQuotient(row.avg_net, row.total_net, row.months)
                /\ row.months = 0 => DecimalIs(row.avg_net, 0)
                /\ ThreeMonthsExample(row.person_id, row.year) =>
                    row.months = 3 /\ DecimalIs(row.avg_net, 200)

C14_Witness ==
    /\ IsYearlyReply
    /\ \E i \in DOMAIN resp.body :
        /\ ThreeMonthsExample(resp.body[i].person_id, resp.body[i].year)
        /\ resp.body[i].months = 3
        /\ resp.body[i].total_net = 600
        /\ DecimalIs(resp.body[i].avg_net, 200)

\* C15: in the family summary of a year, total_net is the sum of
\* by_person[p] over the user's persons p, and by_person[p] is the sum of
\* actual_take_home over the records of p in that year, 0 when p has none.
C15_FamilyTotalNet ==
    resp.op = "family_summary" =>
        LET mine == PersonsOf(resp.args[1])
            by_person == resp.body.by_person
        IN  /\ resp.status = 200
            /\ DOMAIN by_person = mine
            /\ resp.body.total_net
                = SumField({[person_id |-> p, net |-> by_person[p]] : p \in mine},
                           "net")
            /\ \A p \in mine :
                /\ by_person[p]
                    = SumField(Figures(RecordsOfYear({p}, resp.args[2])),
                               "take_home")
                /\ RecordsOfYear({p}, resp.args[2]) = {} => by_person[p] = 0

\* two persons of the user with records in the year, of different take-home
C15_Witness ==
    /\ resp.op = "family_summary"
    /\ \E p, q \in PersonsOf(resp.args[1]) :
        /\ resp.body.by_person[p] > 0
        /\ resp.body.by_person[q] > resp.body.by_person[p]
        /\ resp.body.total_net
            = resp.body.by_person[p] + resp.body.by_person[q]
        /\ resp.body.total_gross # resp.body.total_net

\* history balance plus the contributions of every record of the person
AllTimeTotal(person_id, history, f) ==
    persons[person_id][history] + SumField(RecordsOfPerson(person_id), f)

HasAllTimeTotals(row) ==
    /\ row.pension_total
        = AllTimeTotal(row.person_id, "pension_history", "pension_insurance")
    /\ row.medical_total
        = AllTimeTotal(row.person_id, "medical_history", "medical_insurance")
    /\ row.housing_fund_total
        = AllTimeTotal(row.person_id, "housing_fund_history", "housing_fund")

\* C16: the all-time pension, medical and housing-fund totals are the
\* person's history balance plus that contribution over all of the person's
\* records, whatever the range: in every row of cumulative_insurance, and in
\* the reply of contributions_cumulative for a person of the user under
\* every range string, which reports the totals cumulative_insurance reports
\* for that person.
C16_AllTimeTotals ==
    /\ resp.op = "cumulative_insurance" =>
        /\ resp.status = 200
        /\ {resp.body[i].person_id : i \in DOMAIN resp.body}
                = PersonsOf(resp.args[1])
        /\ \A i \in DOMAIN resp.body : HasAllTimeTotals(resp.body[i])
    /\ resp.op = "contributions_cumulative"
            /\ resp.args[2] \in PersonsOf(resp.args[1]) =>
        /\ resp.status = 200
        /\ HasAllTimeTotals(resp.body)
        /\ \E i \in DOMAIN cumulative_insurance(resp.args[1]).body :
            LET row == cumulative_insurance(resp.args[1]).body[i]
            IN  /\ row.person_id = resp.body.person_id
                /\ row.pension_total = resp.body.pension_total
                /\ row.medical_total = resp.body.medical_total
                /\ row.housing_fund_total = resp.body.housing_fund_total

(***************************************************************************)
(* Breakdown routes: properties                                            *)
(***************************************************************************)
\* a * 2^n
RECURSIVE BigTimesPow2(_, _)
BigTimesPow2(a, n) ==
    IF n > 16 THEN BigTimesPow2(BigTimes(a, 2 ^ 16), n - 16)
    ELSE BigTimes(a, 2 ^ n)

\* the largest k of the doubles ps
RECURSIVE MaxK(_)
MaxK(ps) ==
    IF ps = <<>> THEN 0
    ELSE IF Head(ps).k > MaxK(Tail(ps)) THEN Head(ps).k ELSE MaxK(Tail(ps))

\* 2^K times the sum of the sizes of the doubles of ps of the given sign
RECURSIVE SumScaled(_, _, _)
SumScaled(ps, K, neg) ==
    IF ps = <<>> THEN <<>>
    ELSE IF Head(ps).neg = neg
    THEN BigAdd(BigTimesPow2(Head(ps).m, K - Head(ps).k),
                SumScaled(Tail(ps), K, neg))
    ELSE SumScaled(Tail(ps), K, neg)

\* 2^K times the sum of the units in the last place of the doubles of ps
\* that are not 0
RECURSIVE UnitsScaled(_, _)
UnitsScaled(ps, K) ==
    IF ps = <<>> THEN <<>>
    ELSE IF Head(ps).m # <<>>
    THEN BigAdd(BigTimesPow2(<<1>>, K - Head(ps).k), UnitsScaled(Tail(ps), K))
    ELSE UnitsScaled(Tail(ps), K)

\* the doubles ps add up, exactly, to n or less
SumAtMost(ps, n) ==
    BigCmp(SumScaled(ps, MaxK(ps), FALSE),
           BigAdd(SumScaled(ps, MaxK(ps), TRUE),
                  BigTimesPow2(BigOf(n), MaxK(ps)))) <= 0

SumAtLeast(ps, n) ==
    BigCmp(BigAdd(SumScaled(ps, MaxK(ps), TRUE),
                  BigTimesPow2(BigOf(n), MaxK(ps))),
           SumScaled(ps, MaxK(ps), FALSE)) <= 0

\* the doubles ps add up to n, give or take one unit in the last place of
\* each
SumWithinRounding(ps, n) ==
    /\ BigCmp(SumScaled(ps, MaxK(ps), FALSE),
              BigAdd(BigAdd(SumScaled(ps, MaxK(ps), TRUE),
                            BigTimesPow2(BigOf(n), MaxK(ps))),
                     UnitsScaled(ps, MaxK(ps)))) <= 0
    /\ BigCmp(BigAdd(SumScaled(ps, MaxK(ps), TRUE),
                     BigTimesPow2(BigOf(n), MaxK(ps))),
              BigAdd(SumScaled(ps, MaxK(ps), FALSE),
                     UnitsScaled(ps, MaxK(ps)))) <= 0

\* the double p is amount / total * 100 for total > 0, give or take one unit
\* in its last place
PercentIs(p, amount, total) ==
    /\ p.neg = (amount < 0)
    /\ amount = 0 => p.m = <<>>
    /\ BigCmp(BigTimes(p.m, total),
              BigAdd(BigTimesPow2(BigTimes(BigOf(Abs(amount)), 100), p.k),
                     BigOf(total))) <= 0
    /\ BigCmp(BigTimesPow2(BigTimes(BigOf(Abs(amount)), 100), p.k),
              BigAdd(BigTimes(p.m, total), BigOf(total))) <= 0

IsCompositionReply == resp.op = "income_composition" /\ resp.status = 200

PercentsOf(row) ==
    <<row.base_salary_percent, row.performance_percent,
      row.allowances_percent, row.benefits_percent, row.other_percent>>

\* the five amounts the percents are the shares of
SharesOf(row) ==
    <<row.base_salary, row.performance_salary,
      row.high_temp_allowance + row.low_temp_allowance + row.meal_allowance
      + row.computer_allowance + row.communication_allowance
      + row.comprehensive_allowance,
      row.non_cash_benefits, row.other_income>>

AllZero(ps) == \A i \in DOMAIN ps : ps[i] = FloatZero

\* C17 as stated: the five percents of an income composition row are all 0
\* when total_income <= 0, and add up to at most 100 when total_income > 0.
C17_PercentsAtMostHundred ==
    IsCompositionReply =>
        \A i \in DOMAIN resp.body :
            LET row == resp.body[i]
            IN  /\ row.total_income <= 0 => AllZero(PercentsOf(row))
                /\ row.total_income > 0 => SumAtMost(PercentsOf(row), 100)

\* C17 as amended: the five percents are all 0 when total_income <= 0; when
\* total_income > 0 each is the double of its amount / total_income * 100
\* and they add up to 100 give or take the rounding of each, on either side
\* of 100; total_income is the sum of the five amounts, also when amounts
\* are below zero.
C17_PercentsWithinRounding ==
    IsCompositionReply =>
        \A i \in DOMAIN resp.body :
            LET row == resp.body[i]
            IN  /\ row.total_income = SumSeq(SharesOf(row))
                /\ row.total_income <= 0 => AllZero(PercentsOf(row))
                /\ row.total_income > 0 =>
                    /\ \A j \in 1..5 :
                        PercentIs(PercentsOf(row)[j], SharesOf(row)[j],
                                  row.total_income)
                    /\ SumWithinRounding(PercentsOf(row), 100)

\* a row of amounts 2, 3 and 1 whose percents add up to more than 100
C17_Witness ==
    /\ IsCompositionReply
    /\ \E i \in DOMAIN resp.body :
        /\ SharesOf(resp.body[i]) = <<2, 3, 1, 0, 0>>
        /\ resp.body[i].total_income = 6
        /\ ~SumAtMost(PercentsOf(resp.body[i]), 100)

IsBreakdownReply == resp.op = "deductions_breakdown" /\ resp.status = 200

SummaryPercents == [i \in DOMAIN resp.body.summary |->
                        resp.body.summary[i].percent]
SummaryAmounts == [i \in DOMAIN resp.body.summary |->
                        resp.body.summary[i].amount]

\* C18 as stated: the percents of the deductions summary add up to 100 when
\* grand_total, the sum of the summary amounts, is above 0, and to 0 when it
\* is 0.
C18_PercentsSumToHundred ==
    IsBreakdownReply =>
        /\ SumSeq(SummaryAmounts) > 0 =>
            SumAtMost(SummaryPercents, 100) /\ SumAtLeast(SummaryPercents, 100)
        /\ SumSeq(SummaryAmounts) = 0 =>
            SumAtMost(SummaryPercents, 0) /\ SumAtLeast(SummaryPercents, 0)

\* C18 as amended: when grand_total > 0 each percent is the double of
\* amount / grand_total * 100 and the percents add up to 100 give or take
\* the rounding of each; when grand_total is 0 every percent is 0.
C18_PercentsWithinRounding ==
    IsBreakdownReply =>
        /\ SumSeq(SummaryAmounts) > 0 =>
            /\ \A i \in DOMAIN SummaryPercents :
                PercentIs(SummaryPercents[i], SummaryAmounts[i],
                          SumSeq(SummaryAmounts))
            /\ SumWithinRounding(SummaryPercents, 100)
        /\ SumSeq(SummaryAmounts) = 0 => AllZero(SummaryPercents)

\* deductions 1, 4 and 1 whose percents add up to more than 100
C18_Witness ==
    /\ IsBreakdownReply
    /\ SummaryAmounts = <<1, 4, 0, 0, 0, 1, 0, 0, 0>>
    /\ ~SumAtMost(SummaryPercents, 100)

\* the records a reply of one of the two breakdown routes is about: those of
\* the user that pass the person, year and month asked for and lie in the
\* range
SelectedRecords ==
    {r \in records :
        /\ persons[r.person_id].user_id = resp.args[1]
        /\ resp.args[2] # 0 => r.person_id = resp.args[2]
        /\ resp.args[3] # 0 => r.year = resp.args[3]
        /\ resp.args[4] # 0 => r.month = resp.args[4]
        /\ ExpectedStart(range_parts) <= YmOf(r)
        /\ YmOf(r) <= ExpectedEnd(range_parts)}

\* the nine categories: the name reported and the column it adds up
NineCategories ==
    << <<"pension insurance", "pension_insurance">>,
       <<"medical insurance", "medical_insurance">>,
       <<"unemployment insurance", "unemployment_insurance">>,
       <<"critical illness insurance", "critical_illness_insurance">>,
       <<"enterprise annuity", "enterprise_annuity">>,
       <<"housing fund", "housing_fund">>,
       <<"other deductions", "other_deductions">>,
       <<"labor union", "labor_union_fee">>,
       <<"performance deduction", "performance_deduction">> >>

\* what the records of S put in the bucket of column f
BucketOf(S, f) ==
    SumField({[id |-> r.id,
               v |-> Amount(r, f)
                     + IF f = "other_deductions"
                       THEN SumField(CustomDeductionsOf(r), "amount") ELSE 0] :
                r \in S}, "v")

\* the deductions_total of the monthly view, over the rows of a request
MonthlyDeductionsTotal(rows) ==
    SumSeq([i \in DOMAIN rows |->
                rows[i].gross_income - rows[i].tax - rows[i].actual_take_home])

\* C19: the deductions summary has the nine categories in their order; each
\* amount is the sum of its column over the selected records, custom
\* deduction entries being added to other_deductions and to no other; so
\* the grand total is the sum over the selected records of the nine columns
\* and the custom deductions, the deductions_total of the monthly view.
C19_NineCategories ==
    IsBreakdownReply =>
        /\ Len(resp.body.summary) = 9
        /\ \A i \in 1..9 :
            /\ resp.body.summary[i].category = NineCategories[i][1]
            /\ resp.body.summary[i].amount
                    = BucketOf(SelectedRecords, NineCategories[i][2])
        /\ SumSeq(SummaryAmounts)
            = SumField({[id |-> r.id, v |-> ExpectedDeductionsTotal(r)] :
                            r \in SelectedRecords}, "v")
        /\ range_parts = <<>> =>
            SumSeq(SummaryAmounts)
                = MonthlyDeductionsTotal(
                    monthly_stats(resp.args[1], resp.args[2], resp.args[3],
                                  resp.args[4]).body)

\* a summary over a record with a custom deduction and other_deductions
C19_Witness ==
    /\ IsBreakdownReply
    /\ \E r \in SelectedRecords :
        /\ SumField(CustomDeductionsOf(r), "amount") > 0
        /\ Amount(r, "other_deductions") > 0
        /\ Amount(r, "performance_deduction") > 0
    /\ resp.body.summary[7].amount
        > SumField(SelectedRecords, "other_deductions")
    /\ resp.body.summary[9].amount
        = SumField(SelectedRecords, "performance_deduction")

SelectedMonths == {<<r.year, r.month>> : r \in SelectedRecords}

NineSum(point) ==
    SumSeq([i \in 1..9 |-> point[NineCategories[i][2]]])

\* C20: the monthly series of the deductions breakdown has one point for
\* each (year, month) of the selected records and no other, in strictly
\* ascending (year, month); each point's categories are the sums over the
\* selected records of its month and its total is the sum of its nine
\* categories; each summary amount is the sum of its category over the
\* points.
C20_MonthlySeries ==
    IsBreakdownReply =>
        LET monthly == resp.body.monthly
        IN  /\ Len(monthly) = Cardinality(SelectedMonths)
            /\ {<<monthly[i].year, monthly[i].month>> : i \in DOMAIN monthly}
                    = SelectedMonths
            /\ \A i, j \in DOMAIN monthly :
                i < j =>
                    \/ monthly[i].year < monthly[j].year
                    \/ /\ monthly[i].year = monthly[j].year
                       /\ monthly[i].month < monthly[j].month
            /\ \A i \in DOMAIN monthly :
                /\ monthly[i].total = NineSum(monthly[i])
                /\ \A c \in 1..9 :
                    monthly[i][NineCategories[c][2]]
                        = BucketOf({r \in SelectedRecords :
                                        /\ r.year = monthly[i].year
                                        /\ r.month = monthly[i].month},
                                   NineCategories[c][2])
            /\ \A c \in 1..9 :
                resp.body.summary[c].amount
                    = SumSeq([i \in DOMAIN monthly |->
                                monthly[i][NineCategories[c][2]]])

\* two points, the later month being the record stored first
C20_Witness ==
    /\ IsBreakdownReply
    /\ Len(resp.body.monthly) = 2
    /\ resp.body.monthly[1].total > 0
    /\ resp.body.monthly[2].total > 0
    /\ \E a, b \in SelectedRecords :
        /\ a.id < b.id
        /\ YmOf(a) > YmOf(b)
        /\ YmOf(b) = resp.body.monthly[1].year * 100 + resp.body.monthly[1].month

(***************************************************************************)
(* Payroll Calculator: properties                                          *)
(***************************************************************************)
IsSalaryReply == resp.op = "get_salary" /\ resp.status = 200

\* the stored record a get_salary reply is about
RecordRead == CHOOSE r \in records : r.id = resp.body.id

\* the stored custom values of record r whose definition has the given type
CustomOfType(r, field_type) ==
    {v \in custom_values :
        /\ v.salary_record_id = r.id
        /\ salary_fields[v.salary_field_id].field_type = field_type}

SixDeductions ==
    {"pension_insurance", "medical_insurance", "unemployment_insurance",
     "critical_illness_insurance", "enterprise_annuity", "housing_fund"}

RECURSIVE SumAmounts(_, _)
SumAmounts(r, fields) ==
    IF fields = {} THEN 0
    ELSE LET f == CHOOSE f \in fields : TRUE
         IN  Amount(r, f) + SumAmounts(r, fields \ {f})

\* C21: for every record the Calculator processes, actual_take_home =
\* total_income - total_deductions - tax - non_cash_benefits exactly, where
\* total_income is base_salary + performance_salary + all custom income
\* entries, total_deductions the six deduction amounts + the custom
\* deduction entries, and non_cash_benefits the custom income entries that
\* are flagged non-cash.
C21_TakeHomeIdentity ==
    IsSalaryReply =>
        LET r == RecordRead
            out == resp.body
        IN  /\ out.total_income =
                    Amount(r, "base_salary") + Amount(r, "performance_salary")
                    + SumField(CustomOfType(r, "income"), "amount")
            /\ out.total_deductions =
                    SumAmounts(r, SixDeductions)
                    + SumField(CustomOfType(r, "deduction"), "amount")
            /\ out.non_cash_benefits =
                    SumField(CustomValuesOf(r, "income", TRUE), "amount")
            /\ out.tax = Amount(r, "tax")
            /\ out.actual_take_home =
                    out.total_income - out.total_deductions - out.tax
                    - out.non_cash_benefits

\* a record with a cash bonus, a non-cash gift and a fine is read back
C21_Witness ==
    /\ IsSalaryReply
    /\ resp.body.non_cash_benefits = 2 ^ 23
    /\ resp.body.total_income = 1 + 2 + 2 ^ 22 + 2 ^ 23
    /\ resp.body.total_deductions = 4 + 8 + 16 + 32 + 64 + 128 + 2 ^ 24
    /\ resp.body.actual_take_home =
            1 + 2 + 2 ^ 22 - (4 + 8 + 16 + 32 + 64 + 128 + 2 ^ 24) - 256

\* a record whose fixed, optional and custom amounts are all zero or absent
IsZeroRecord(r) ==
    /\ \A f \in Range(AmountFields) : Amount(r, f) = 0
    /\ \A v \in custom_values : v.salary_record_id = r.id => v.amount = 0

\* every amount of a row is zero; keys are the amounts the row carries
ZeroAt(row, keys) == \A k \in keys : row[k] = 0

DecimalIsZero(d) == d.coef = <<>>

SalaryOutAmounts ==
    Range(SalaryOutFields)
    \cup {"tax", "total_income", "total_deductions", "gross_income",
          "net_income", "actual_take_home", "non_cash_benefits"}

MonthlyAmounts ==
    {"base_salary", "performance", "allowances_total", "bonuses_total",
     "insurance_total", "tax", "gross_income", "net_income",
     "actual_take_home", "non_cash_benefits"}

YearlyTotals ==
    {"total_gross", "total_net", "insurance_total", "tax_total",
     "allowances_total", "bonuses_total", "total_actual_take_home",
     "total_non_cash_benefits"}

FamilyTotals == {"total_gross", "total_net", "insurance_total", "tax_total"}

CompositionAmounts ==
    {"base_salary", "performance_salary", "high_temp_allowance",
     "low_temp_allowance", "computer_allowance", "communication_allowance",
     "comprehensive_allowance", "meal_allowance", "mid_autumn_benefit",
     "dragon_boat_benefit", "spring_festival_benefit", "other_income",
     "other_income_base", "non_cash_benefits", "total_income"}

PointAmounts == CategoryKeys \cup {"total"}

\* C22: for a record whose fixed, optional and custom fields are all zero
\* or absent, every amount the Calculator and the monthly, yearly, family,
\* income-composition and deductions-breakdown operations report for it is
\* zero, and so is every percentage. The yearly, family and breakdown
\* figures are sums over records: they are zero when the records they are
\* taken over are all such records.
C22_ZeroRecordZeroOutputs ==
    /\ (IsSalaryReply /\ IsZeroRecord(RecordRead))
        => /\ ZeroAt(resp.body, SalaryOutAmounts)
           /\ DOMAIN resp.body.custom_fields = {}
    /\ (resp.op = "monthly_stats" /\ resp.status = 200)
        => \A i \in DOMAIN resp.body :
            IsZeroRecord(RecordOfRow(resp.body[i]))
                => ZeroAt(resp.body[i], MonthlyAmounts)
    /\ IsYearlyReply
        => \A i \in DOMAIN resp.body :
            (\A r \in RecordsOfYear({resp.body[i].person_id}, resp.args[3]) :
                IsZeroRecord(r))
                => /\ ZeroAt(resp.body[i], YearlyTotals)
                   /\ DecimalIsZero(resp.body[i].avg_net)
    /\ (resp.op = "family_summary" /\ resp.status = 200)
        => ((\A r \in RecordsOfYear(PersonsOf(resp.args[1]), resp.args[2]) :
                IsZeroRecord(r))
                => /\ ZeroAt(resp.body, FamilyTotals)
                   /\ \A pid \in DOMAIN resp.body.by_person :
                        resp.body.by_person[pid] = 0)
    /\ IsCompositionReply
        => \A i \in DOMAIN resp.body :
            IsZeroRecord(RecordOfRow(resp.body[i]))
                => /\ ZeroAt(resp.body[i], CompositionAmounts)
                   /\ AllZero(PercentsOf(resp.body[i]))
                   /\ resp.body[i].custom_income_items = <<>>
                   /\ resp.body[i].custom_non_cash_items = <<>>
    /\ IsBreakdownReply
        => /\ (\A r \in SelectedRecords : IsZeroRecord(r))
                => /\ AllZero(SummaryPercents)
                   /\ \A i \in DOMAIN SummaryAmounts : SummaryAmounts[i] = 0
           /\ \A i \in DOMAIN resp.body.monthly :
                (\A r \in SelectedRecords :
                    (r.year = resp.body.monthly[i].year
                        /\ r.month = resp.body.monthly[i].month)
                    => IsZeroRecord(r))
                => ZeroAt(resp.body.monthly[i], PointAmounts)

\* a record of zeros is stored next to one that is not, and the income
\* composition reports both
C22_Witness ==
    /\ IsCompositionReply
    /\ Len(resp.body) = 2
    /\ \E r \in records : IsZeroRecord(r)
    /\ \E i \in DOMAIN resp.body :
        /\ IsZeroRecord(RecordOfRow(resp.body[i]))
        /\ resp.body[i].total_income = 0
        /\ AllZero(PercentsOf(resp.body[i]))
    /\ \E i \in DOMAIN resp.body : resp.body[i].total_income > 0

ActiveOnly(values) ==
    {v \in values : salary_fields[v.salary_field_id].is_active}

FixedCashIncome(r) ==
    Amount(r, "base_salary") + Amount(r, "performance_salary")
    + Amount(r, "high_temp_allowance") + Amount(r, "low_temp_allowance")
    + Amount(r, "meal_allowance") + Amount(r, "computer_allowance")
    + Amount(r, "communication_allowance")
    + Amount(r, "comprehensive_allowance") + Amount(r, "other_income")

FixedDeductions(r) ==
    Amount(r, "pension_insurance") + Amount(r, "medical_insurance")
    + Amount(r, "unemployment_insurance")
    + Amount(r, "critical_illness_insurance")
    + Amount(r, "enterprise_annuity") + Amount(r, "housing_fund")
    + Amount(r, "other_deductions") + Amount(r, "labor_union_fee")
    + Amount(r, "performance_deduction")

FestivalBenefits(r) ==
    Amount(r, "mid_autumn_benefit") + Amount(r, "dragon_boat_benefit")
    + Amount(r, "spring_festival_benefit")

\* C4: a custom value counts in the custom cash, non-cash and deduction sums
\* of the statistics only while its definition is active, also when the
\* definition was deactivated after the value was written.
C4_InactiveDefinitionsExcluded ==
    resp.op = "monthly_stats" =>
        \A i \in DOMAIN resp.body :
            LET row == resp.body[i]
                r   == RecordOfRow(row)
            IN  /\ row.gross_income = FixedCashIncome(r)
                     + SumField(ActiveOnly(CustomValuesOf(r, "income", FALSE)),
                                "amount")
                /\ row.non_cash_benefits = FestivalBenefits(r)
                     + SumField(ActiveOnly(CustomValuesOf(r, "income", TRUE)),
                                "amount")
                /\ row.gross_income - row.actual_take_home =
                     FixedDeductions(r) + Amount(r, "tax")
                     + SumField(ActiveOnly(CustomDeductionsOf(r)), "amount")

UniqueKeys ==
    \A a, b \in records :
        (a.person_id = b.person_id /\ a.year = b.year /\ a.month = b.month)
            => a = b

\* a create_salary step by the person's user for a key that is stored
CreateForExistingKey ==
    /\ resp'.op = "create_salary"
    /\ OwnsPerson(resp'.args[1], resp'.args[2])
    /\ KeyTaken(records, resp'.args[2], resp'.args[3], resp'.args[4], 0)

\* C6: after any sequence of create_salary, import_salaries, update_salary
\* and delete_salary there is at most one record per (person, year, month),
\* and create_salary for a stored (person, year, month) answers 400 and
\* leaves the stored records and custom values as they were.
C6_OneRecordPerMonth ==
    /\ []UniqueKeys
    /\ [][CreateForExistingKey =>
            /\ resp'.status = 400
            /\ records' = records
            /\ custom_values' = custom_values]_vars

C6_Witness ==
    /\ resp.op = "create_salary"
    /\ resp.status = 400
    /\ KeyTaken(records, resp.args[2], resp.args[3], resp.args[4], 0)
    /\ Cardinality(records) = 2

\* C24: a record and its custom values are deleted together: after
\* delete_salary succeeds no custom value referencing the record remains,
\* and after any sequence of create, update, import and delete every stored
\* custom value references an existing salary record.
C24_ValuesDieWithRecord ==
    /\ \A v \in custom_values : \E r \in records : r.id = v.salary_record_id
    /\ (resp.op = "delete_salary" /\ resp.status = 200)
        => /\ \A r \in records : r.id # resp.args[1]
           /\ \A v \in custom_values : v.salary_record_id # resp.args[1]

\* the first of two records was deleted; the second keeps its values
C24_Witness ==
    /\ resp.op = "delete_salary" /\ resp.status = 200 /\ resp.args[1] = 1
    /\ \E r \in records : r.id = 2
    /\ \E v \in custom_values : v.salary_record_id = 2

\* the stored custom values of the record
ValuesOf(record_id) == {v \in custom_values : v.salary_record_id = record_id}

\* the entries of the mapping whose key is an active definition of the user
\* and whose amount is not zero, as rows of the record
ExpectedValues(record_id, user_id, map) ==
    {CustomValueRow(record_id, fid, map[salary_fields[fid].field_key]) :
        fid \in {f \in DOMAIN salary_fields :
                    /\ salary_fields[f].user_id = user_id
                    /\ salary_fields[f].is_active
                    /\ salary_fields[f].field_key \in DOMAIN map
                    /\ map[salary_fields[f].field_key] # 0}}

\* the mapping import_salaries saves for a row: the active keys of the user
\* that are columns of the file
HasActiveColumn(user_id, row) ==
    \E f \in DOMAIN salary_fields :
        /\ salary_fields[f].user_id = user_id
        /\ salary_fields[f].is_active
        /\ salary_fields[f].field_key \in DOMAIN row.custom

RowPerson(row, person_id) ==
    IF row.person_id # 0 THEN row.person_id ELSE person_id

SameKey(a, b, person_id) ==
    /\ RowPerson(a, person_id) = RowPerson(b, person_id)
    /\ a.year = b.year /\ a.month = b.month

\* the stored record of the key of an imported row
RecordOfImportRow(row, person_id) ==
    CHOOSE r \in records :
        /\ r.person_id = RowPerson(row, person_id)
        /\ r.year = row.year /\ r.month = row.month

\* C25: after save_custom_fields has run with a non-empty mapping, the
\* stored custom values of the record are exactly the entries of the mapping
\* whose key is an active definition of the user and whose amount is not
\* zero, the earlier values of the record being replaced; no value of amount
\* zero is ever stored, and a record without values is computed with 0 for
\* them.
C25_SavedValuesAreActiveNonzero ==
    /\ \A v \in custom_values : v.amount # 0
    /\ (resp.op = "update_salary" /\ resp.status = 200
            /\ resp.args[3].given /\ DOMAIN resp.args[3].map # {})
        => ValuesOf(resp.args[1])
                = ExpectedValues(resp.args[1], resp.args[2], resp.args[3].map)
    /\ (resp.op = "create_salary" /\ resp.status = 200
            /\ resp.args[5].given /\ DOMAIN resp.args[5].map # {})
        => ValuesOf(resp.body.id)
                = ExpectedValues(resp.body.id, resp.args[1], resp.args[5].map)
    /\ (resp.op = "import_salaries" /\ resp.status = 200
            /\ resp.args[1] = "upsert")
        => LET rows == resp.args[4]
           IN  \A i \in DOMAIN rows :
                ((\A j \in DOMAIN rows :
                        SameKey(rows[i], rows[j], resp.args[3]) => j <= i)
                    /\ HasActiveColumn(resp.args[2], rows[i]))
                => ValuesOf(RecordOfImportRow(rows[i], resp.args[3]).id)
                    = ExpectedValues(
                        RecordOfImportRow(rows[i], resp.args[3]).id,
                        resp.args[2], rows[i].custom)
    /\ (resp.op = "monthly_stats" /\ resp.status = 200)
        => \A i \in DOMAIN resp.body :
            LET row == resp.body[i]
                r   == RecordOfRow(row)
            IN  ValuesOf(r.id) = {}
                    => /\ row.gross_income = FixedCashIncome(r)
                       /\ row.non_cash_benefits = FestivalBenefits(r)
                       /\ row.gross_income - row.actual_take_home
                            = FixedDeductions(r) + Amount(r, "tax")

\* record 1 had values, and an update with the mapping bonus -> 6 left it
\* with that value alone
C25_Witness ==
    /\ resp.op = "update_salary" /\ resp.status = 200
    /\ resp.args[3] = Given([k \in {"bonus"} |-> 6])
    /\ ValuesOf(resp.args[1]) = {CustomValueRow(resp.args[1], 1, 6)}

\* the rows of a table of values that belong to the record
ValuesIn(values, record_id) == {v \in values : v.salary_record_id = record_id}

\* a successful update_salary step whose custom_fields is a mapping
UpdateWithMapping ==
    /\ resp'.op = "update_salary" /\ resp'.status = 200
    /\ resp'.args[3].given

\* C28: update_salary with custom_fields given as an empty mapping leaves
\* the stored custom values of the record as they were, save_custom_fields
\* returning before it deletes anything; a non-empty mapping replaces all of
\* them, also when every amount in it is zero, which leaves the record
\* without values.
C28_EmptyMappingKeepsValues ==
    [][UpdateWithMapping =>
        LET rid == resp'.args[1]
            map == resp'.args[3].map
        IN  /\ DOMAIN map = {} => custom_values' = custom_values
            /\ DOMAIN map # {}
                => /\ ValuesIn(custom_values', rid)
                        = ExpectedValues(rid, resp'.args[2], map)
                   /\ \A v \in custom_values' :
                        v.salary_record_id # rid => v \in custom_values
            /\ (DOMAIN map # {} /\ \A k \in DOMAIN map : map[k] = 0)
                => ValuesIn(custom_values', rid) = {}]_vars

\* an update with the empty mapping was answered and the record has its
\* values still
C28_Witness ==
    /\ resp.op = "update_salary" /\ resp.status = 200
    /\ resp.args[3] = Given([k \in {} |-> 0])
    /\ ValuesOf(resp.args[1]) # {}

\* a step of import_salaries, and the request it answers
ImportStep == resp'.op = "import_salaries"
ImportMode == resp'.args[1]
ImportPerson == resp'.args[3]
ImportedRows == resp'.args[4]

\* the rows that find a record of their key: one stored before the request,
\* or one an earlier row of the file has created
RowsWithExisting ==
    {i \in DOMAIN ImportedRows :
        \/ \E r \in records :
            /\ r.person_id = RowPerson(ImportedRows[i], ImportPerson)
            /\ r.year = ImportedRows[i].year
            /\ r.month = ImportedRows[i].month
        \/ \E j \in 1..(i - 1) :
            SameKey(ImportedRows[i], ImportedRows[j], ImportPerson)}

\* the rows up to row i name a person of the user
RowsValidUpTo(i) ==
    \A j \in 1..i :
        OwnsPerson(resp'.args[2], RowPerson(ImportedRows[j], ImportPerson))

\* the record of the key of row i after the request
RecordAfter(i) ==
    {r \in records' :
        /\ r.person_id = RowPerson(ImportedRows[i], ImportPerson)
        /\ r.year = ImportedRows[i].year
        /\ r.month = ImportedRows[i].month}

\* C27: import_salaries treats a row whose (person, year, month) has a
\* record by mode: 'skip' leaves the record and its custom values unchanged
\* and counts the row as skipped, 'error' raises 400, 'upsert' overwrites
\* the fixed fields and counts the row as updated; a row without a record
\* creates one; and when the import completes without error, created +
\* updated + skipped is the number of rows.
C27_ImportByMode ==
    [][ImportStep =>
        /\ resp'.status = 200 =>
            /\ resp'.body.created + resp'.body.updated + resp'.body.skipped
                    = Len(ImportedRows)
            /\ resp'.body.created = Cardinality(records') - Cardinality(records)
            /\ resp'.body.created
                    = Len(ImportedRows) - Cardinality(RowsWithExisting)
            /\ \A i \in DOMAIN ImportedRows : RecordAfter(i) # {}
        /\ (resp'.status = 200 /\ ImportMode = "skip") =>
            /\ resp'.body.skipped = Cardinality(RowsWithExisting)
            /\ resp'.body.updated = 0
            /\ \A r \in records :
                /\ r \in records'
                /\ ValuesIn(custom_values', r.id) = ValuesIn(custom_values, r.id)
        /\ (ImportMode = "error"
                /\ \E i \in RowsWithExisting : RowsValidUpTo(i))
            => resp'.status = 400
        /\ (resp'.status = 200 /\ ImportMode = "error")
            => RowsWithExisting = {}
        /\ (resp'.status = 200 /\ ImportMode = "upsert") =>
            /\ resp'.body.updated = Cardinality(RowsWithExisting)
            /\ resp'.body.skipped = 0
            /\ \A i \in DOMAIN ImportedRows :
                (\A j \in DOMAIN ImportedRows :
                    SameKey(ImportedRows[i], ImportedRows[j], ImportPerson)
                        => j <= i)
                => \A r \in RecordAfter(i) :
                    \A f \in DOMAIN ImportedRows[i].amounts :
                        r[f] = ImportedRows[i].amounts[f]]_vars

\* an upsert of a file of two rows for the month of a stored record of base
\* salary 1000 has overwritten it, and counts two updates
C27_Witness ==
    /\ resp.op = "import_salaries" /\ resp.status = 200
    /\ resp.args[1] = "upsert"
    /\ Len(resp.args[4]) = 2
    /\ resp.body = [created |-> 0, updated |-> 2, skipped |-> 0]
    /\ \E r \in records : r.base_salary = 3000 /\ r.id = 1

(***************************************************************************)
(* Template routes: properties                                             *)
(***************************************************************************)
AtMostOneTemplate ==
    \A a, b \in templates : a.person_id = b.person_id => a = b

\* a get_template step that follows the successful upsert_template or
\* delete_template of the same user for the same person
GetAfter(op) ==
    /\ resp.op = op /\ resp.status = 200
    /\ resp'.op = "get_template"
    /\ resp'.args = <<resp.args[1], resp.args[2]>>

\* the reply that shows the fields of the payload as they were sent
PayloadAsSent(person_id, payload) ==
    [person_id |-> person_id, note |-> payload.note,
     custom_fields |-> payload.custom_fields.map]
    @@ [f \in Range(TemplateFields) |-> payload.amounts[f]]

\* the amount in thousandths to two places: the nearest multiple of ten
RoundedToCents(thousandths) ==
    CHOOSE n \in (thousandths - 5)..(thousandths + 5) :
        /\ n % 10 = 0
        /\ \A m \in (thousandths - 5)..(thousandths + 5) :
            m % 10 = 0 => Abs(n - thousandths) <= Abs(m - thousandths)

\* the reply that shows the fields of the payload, the amounts to two places
PayloadToTwoPlaces(person_id, payload) ==
    [person_id |-> person_id, note |-> payload.note,
     custom_fields |-> payload.custom_fields.map]
    @@ [f \in Range(TemplateFields) |-> RoundedToCents(payload.amounts[f])]

DeleteAlwaysSucceeds ==
    (resp'.op = "delete_template"
            /\ OwnsPerson(resp'.args[1], resp'.args[2]))
        => /\ resp'.status = 200
           /\ \A t \in templates' : t.person_id # resp'.args[2]

\* C29 as stated: after any sequence of upsert_template and delete_template
\* each person has at most one template; get_template after upsert_template
\* returns exactly the fields of the last upserted payload, custom_fields
\* being the empty mapping when none was given; get_template after
\* delete_template returns 404; delete_template succeeds also when the
\* person has no template.
C29_GetReturnsPayload ==
    /\ []AtMostOneTemplate
    /\ [][/\ GetAfter("upsert_template")
                => /\ resp'.status = 200
                   /\ resp'.body = PayloadAsSent(resp.args[2], resp.args[3])
          /\ GetAfter("delete_template") => resp'.status = 404
          /\ DeleteAlwaysSucceeds]_vars

\* C29 as amended: the same, get_template after upsert_template returning
\* the fields of the last upserted payload with the nine amounts rounded to
\* two decimal places, the places the columns of the template keep.
C29_GetReturnsStoredPayload ==
    /\ []AtMostOneTemplate
    /\ [][/\ GetAfter("upsert_template")
                => /\ resp'.status = 200
                   /\ resp'.body = PayloadToTwoPlaces(resp.args[2], resp.args[3])
          /\ GetAfter("delete_template") => resp'.status = 404
          /\ DeleteAlwaysSucceeds]_vars

\* the template upserted with 1234.567 and 1.004 is read back as 1234.57
\* and 1.00
C29_Witness ==
    /\ resp.op = "get_template" /\ resp.status = 200
    /\ resp.body.base_salary = 1234570
    /\ resp.body.tax = 1000
    /\ resp.body.custom_fields = [k \in {"bonus"} |-> 5000]
    /\ Cardinality(templates) = 2

(***************************************************************************)
(* The income composition and the monthly view                             *)
(***************************************************************************)
\* the row monthly_stats reports for the record
MonthlyRowFor(user_id, r) ==
    monthly_stats(user_id, r.person_id, r.year, r.month).body[1]

\* C30: for every record, the total_income of the income composition is the
\* gross_income plus the non_cash_benefits of the monthly view of the same
\* record and custom entries, that is base + performance + the full
\* allowances + other_income + custom cash income + festival benefits +
\* custom non-cash income; custom deduction entries never affect it.
C30_CompositionTotalIsMonthlyGrossPlusNonCash ==
    IsCompositionReply =>
        \A i \in DOMAIN resp.body :
            LET row == resp.body[i]
                r   == RecordOfRow(row)
                m   == MonthlyRowFor(resp.args[1], r)
            IN  /\ row.total_income = m.gross_income + m.non_cash_benefits
                /\ row.total_income =
                        FixedCashIncome(r)
                        + SumField(CustomValuesOf(r, "income", FALSE), "amount")
                        + FestivalBenefits(r)
                        + SumField(CustomValuesOf(r, "income", TRUE), "amount")

\* the composition of a record with cash, non-cash and deduction custom
\* values next to one whose only custom value is a deduction
C30_Witness ==
    /\ IsCompositionReply
    /\ Len(resp.body) = 2
    /\ \E i \in DOMAIN resp.body :
        /\ CustomDeductionsOf(RecordOfRow(resp.body[i])) # {}
        /\ CustomValuesOf(RecordOfRow(resp.body[i]), "income", TRUE) # {}
        /\ resp.body[i].total_income > 2 ^ 23
    /\ \E i \in DOMAIN resp.body :
        /\ CustomDeductionsOf(RecordOfRow(resp.body[i])) # {}
        /\ resp.body[i].total_income = 1000

(***************************************************************************)
(* Isolation of the users                                                  *)
(***************************************************************************)
\* the record exists and its person belongs to another user
OthersRecord(user_id, record_id) ==
    \E r \in records :
        r.id = record_id /\ persons[r.person_id].user_id # user_id

\* the person exists and belongs to another user
OthersPerson(user_id, person_id) ==
    person_id \in DOMAIN persons /\ persons[person_id].user_id # user_id

\* the request of a step names a record of another user
NamesOthersRecord ==
    \/ /\ resp'.op \in {"get_salary", "payslip_svg", "payslip_html"}
       /\ OthersRecord(resp'.args[1], resp'.args[2])
    \/ /\ resp'.op \in {"update_salary", "delete_salary"}
       /\ OthersRecord(resp'.args[2], resp'.args[1])

\* the request of a step names a person of another user
NamesOthersPerson ==
    /\ resp'.op \in {"create_salary", "get_template", "upsert_template",
                     "delete_template", "yearly_stats",
                     "contributions_cumulative"}
    /\ OthersPerson(resp'.args[1], resp'.args[2])

\* an import reaches a row of a person of another user: the rows before it
\* name persons of the user and none of them raises
ImportReachesOthersPerson ==
    /\ ImportStep
    /\ \E i \in DOMAIN ImportedRows :
        /\ OthersPerson(resp'.args[2], RowPerson(ImportedRows[i], ImportPerson))
        /\ RowsValidUpTo(i - 1)
        /\ ImportMode = "error" => \A j \in 1..(i - 1) : j \notin RowsWithExisting

CrossUserRefused ==
    (NamesOthersRecord \/ NamesOthersPerson \/ ImportReachesOthersPerson)
        => resp'.status = 404 /\ UNCHANGED db_vars

\* the records of the persons of the user
RecordsOfUser(user_id) ==
    {r \in records : persons[r.person_id].user_id = user_id}

\* the rows and sums of the four views are those of records of the user
OwnRecordsOnly ==
    /\ (resp.op \in {"monthly_stats", "income_composition"}
            /\ resp.status = 200)
        => /\ \A i \in DOMAIN resp.body : resp.body[i].person_id \in PersonsOf(resp.args[1])
           /\ Len(resp.body) = Cardinality(SelectedRecords)
    /\ resp.op = "family_summary"
        => /\ Range(resp.body.persons) = PersonsOf(resp.args[1])
           /\ DOMAIN resp.body.by_person = PersonsOf(resp.args[1])
           /\ resp.body.tax_total
                = SumField({r \in RecordsOfUser(resp.args[1]) :
                                r.year = resp.args[2]}, "tax")
    /\ (resp.op = "deductions_breakdown" /\ resp.status = 200)
        => /\ {<<resp.body.monthly[i].year, resp.body.monthly[i].month>> :
                    i \in DOMAIN resp.body.monthly} = SelectedMonths
           /\ resp.body.summary[1].amount
                = SumField(SelectedRecords, "pension_insurance")

\* C26: a user can never read or change another user's data: get_salary,
\* update_salary, delete_salary and the payslip routes on a record of a
\* person of another user, and create_salary, import rows, the template
\* routes, yearly_stats and contributions_cumulative on a person of another
\* user, answer 404 and leave all stored state unchanged; the monthly,
\* family, income composition and deductions breakdown results contain only
\* records of the persons of the requesting user.
C26_NoCrossUserAccess ==
    /\ []OwnRecordsOnly
    /\ [][CrossUserRefused]_vars

====
